---- MODULE Spec2Model ----
(***************************************************************************)
(* Screening engine of stock_data: leaf conditions, the AND / OR / NOT     *)
(* combinators and the collaborators they call (src/src/screening).        *)
(*                                                                         *)
(* A condition is a record [type, params] (leaf) or [type, conditions]     *)
(* (combinator).  filter is the recursive operator Filter; it returns      *)
(* [ret, raised, log]: the returned list, whether an exception left the    *)
(* call, and the ordered log of filter invocations and collaborator calls. *)
(* Optional Python values are <<>> (None) or <<v>>.                        *)
(*                                                                         *)
(* Spec checks combinator trees, SpecLeaf single leaf conditions against   *)
(* arbitrary collaborators, SpecService a ScreeningService across a        *)
(* sequence of screen_stocks / count_stocks / get_stock_codes /            *)
(* clear_cache calls.                                                      *)
(***************************************************************************)
EXTENDS Integers, Sequences, FiniteSets, TLC

\* ------------------------------------------------------------------ bounds
MaxLen == 2          \* longest input list and longest row list of a handle
MaxChildren == 2     \* most children of one combinator
MaxDepth == 2        \* deepest nesting of combinators in combinators
MaxQueries == 2      \* most catalog queries counted between two clear_cache calls

Codes == {"A", "B", "C"}
None == <<>>
Some(v) == <<v>>
IsNone(v) == v = <<>>
Val(v) == v[1]
\* Python truthiness of an Optional[str]: None and "" are falsy
Truthy(v) == v /= <<>> /\ v[1] /= ""

\* all lists over S of length at most n
RECURSIVE SeqsUpTo(_, _)
SeqsUpTo(S, n) ==
  IF n = 0 THEN {<<>>}
  ELSE LET shorter == SeqsUpTo(S, n - 1)
       IN shorter \cup {Append(s, x) : s \in {t \in shorter : Len(t) = n - 1}, x \in S}

Range(s) == {s[i] : i \in 1..Len(s)}

\* ------------------------------------------------------------------ state
VARIABLES
  condition,      \* the condition tree handed to filter
  stock_codes,    \* the input list
  context,        \* the context argument: [none, keys, db_manager, fetch_service]
  hashOrder,      \* iteration order of a Python set of codes in this process
  result,         \* outcome of the call: [ret, raised, log]
  pc,             \* "ready" before the call, "done" after it, "service" in a service
  all_stocks_cache,   \* ScreeningService._all_stocks_cache: None or a list
  catalog,            \* the stock table behind StockService
  call,               \* the last call made on the ScreeningService
  queriesSinceClear,  \* get_all_stocks calls since construction / clear_cache
  threads             \* per caller of a call in progress: its position and locals

vars == <<condition, stock_codes, context, hashOrder, result, pc,
          all_stocks_cache, catalog, call, queriesSinceClear, threads>>
service_vars == <<all_stocks_cache, catalog, call, queriesSinceClear, threads>>

\* ---------------------------------------------------------- collaborators
\* process-default handles (src/src/core/db.py:120, fetch_data_service.py:201)
\* a data-access handle: the batched queries that raise, the rows a batched
\* query returns, and per code the per-identifier queries that raise and the
\* values of the reporting periods, newest first
\* a market-data handle: the latest trading day, the codes whose series lookup
\* raises, the close series per code, and the codes on whose frame the signal
\* comparison of an indicator condition is true once the indicator is defined
db_manager_default ==
  [raises |-> {}, rows |-> <<>>, periodRaises |-> {}, periods |-> [c \in Codes |-> <<>>]]
fetch_data_service_default ==
  [latest |-> Some("2024-01-05"), latestRaises |-> FALSE,
   dataRaises |-> {}, close |-> [c \in Codes |-> <<>>], signalOn |-> {}]

\* outcome constructors
Ret(list, log) == [ret |-> list, raised |-> FALSE, log |-> log]
Raise(log) == [ret |-> <<>>, raised |-> TRUE, log |-> log]
Ev(op, who, arg) == [op |-> op, who |-> who, arg |-> arg]

\* `context and key in context`
HasKey(ctx, key) == ~ctx.none /\ key \in ctx.keys

\* db_manager.execute_query(sql, params): rows, or an exception
execute_query(db, sql) ==
  IF sql \in db.raises THEN [raised |-> TRUE, rows |-> <<>>]
  ELSE [raised |-> FALSE, rows |-> db.rows]

RowCodes(rows) == [i \in 1..Len(rows) |-> rows[i].code]

\* list(set): the elements of S in the process's set iteration order
ListOfSet(S) == SelectSeq(hashOrder, LAMBDA c : c \in S)

\* --------------------------------------------------------- leaf conditions
\* the idiom `if context and 'db_manager' in context: ... else: import`
DbOf(ctx) == IF HasKey(ctx, "db_manager") THEN ctx.db_manager ELSE db_manager_default

\* the idiom `if context and 'fetch_service' in context: ... else: import`
FetchOf(ctx) ==
  IF HasKey(ctx, "fetch_service") THEN ctx.fetch_service ELSE fetch_data_service_default

\* CodeListConditionFilter with the include and exclude comprehensions swapped
CodeListConditionFilter_Swapped(self, codes_in) ==
  LET codes == self.params.codes
      exclude == self.params.exclude
  IN IF codes = {} THEN (IF ~exclude THEN codes_in ELSE <<>>)
     ELSE IF exclude THEN SelectSeq(codes_in, LAMBDA code : code \in codes)
     ELSE SelectSeq(codes_in, LAMBDA code : code \notin codes)

CodeListConditionFilter(self, codes_in) ==
  LET codes == self.params.codes
      exclude == self.params.exclude
  IN IF codes = {} THEN (IF ~exclude THEN codes_in ELSE <<>>)
     ELSE IF exclude THEN SelectSeq(codes_in, LAMBDA code : code \notin codes)
     ELSE SelectSeq(codes_in, LAMBDA code : code \in codes)

\* MarketConditionFilter that asks the data-access handle once per identifier
MarketConditionFilter_PerCode(self, codes_in, ctx, who) ==
  LET market == self.params.market
  IN IF ~Truthy(market) THEN Ret(codes_in, <<>>)
     ELSE IF codes_in = <<>> THEN Ret(<<>>, <<>>)
     ELSE LET results == execute_query(DbOf(ctx), "MarketCondition")
              log == [i \in 1..Len(codes_in) |-> Ev("execute_query", who, <<codes_in[i]>>)]
              market_stocks == Range(RowCodes(results.rows))
          IN IF results.raised THEN Ret(<<>>, log)
             ELSE Ret(SelectSeq(codes_in, LAMBDA code : code \in market_stocks), log)

MarketConditionFilter(self, codes_in, ctx, who) ==
  LET market == self.params.market
  IN IF ~Truthy(market) THEN Ret(codes_in, <<>>)
     ELSE IF codes_in = <<>> THEN Ret(<<>>, <<>>)
     ELSE LET results == execute_query(DbOf(ctx), "MarketCondition")
              log == <<Ev("execute_query", who, codes_in)>>
              market_stocks == Range(RowCodes(results.rows))
          IN IF results.raised THEN Ret(<<>>, log)
             ELSE Ret(SelectSeq(codes_in, LAMBDA code : code \in market_stocks), log)

MarketValueConditionFilter(self, codes_in, ctx, who) ==
  LET min_value == self.params.min_value
      max_value == self.params.max_value
  IN IF codes_in = <<>> THEN Ret(<<>>, <<>>)
     ELSE IF IsNone(min_value) /\ IsNone(max_value) THEN Ret(codes_in, <<>>)
     ELSE LET results == execute_query(DbOf(ctx), "MarketValueCondition")
              log == <<Ev("execute_query", who, codes_in)>>
          IN IF results.raised THEN Ret(<<>>, log)
             ELSE Ret(RowCodes(results.rows), log)

IndustryConditionFilter(self, codes_in, ctx, who) ==
  LET industry_name == self.params.industry_name
      industry_code == self.params.industry_code
  IN IF ~Truthy(industry_name) /\ ~Truthy(industry_code) THEN Ret(codes_in, <<>>)
     ELSE IF codes_in = <<>> THEN Ret(<<>>, <<>>)
     ELSE LET results == execute_query(DbOf(ctx), "IndustryCondition")
              log == <<Ev("execute_query", who, codes_in)>>
              industry_stocks == Range(RowCodes(results.rows))
          IN IF results.raised THEN Ret(<<>>, log)
             ELSE Ret(SelectSeq(codes_in, LAMBDA code : code \in industry_stocks), log)

ListDateConditionFilter(self, codes_in, ctx, who) ==
  LET min_date == self.params.min_date
      max_date == self.params.max_date
  IN IF codes_in = <<>> THEN Ret(<<>>, <<>>)
     ELSE IF IsNone(min_date) /\ IsNone(max_date) THEN Ret(codes_in, <<>>)
     ELSE LET results == execute_query(DbOf(ctx), "ListDateCondition")
              log == <<Ev("execute_query", who, codes_in)>>
          IN IF results.raised THEN Ret(<<>>, log)
             ELSE Ret(RowCodes(results.rows), log)

CompanyTypeConditionFilter(self, codes_in, ctx, who) ==
  LET company_type == self.params.company_type
  IN IF ~Truthy(company_type) THEN Ret(codes_in, <<>>)
     ELSE IF codes_in = <<>> THEN Ret(<<>>, <<>>)
     ELSE LET results == execute_query(DbOf(ctx), "CompanyTypeCondition")
              log == <<Ev("execute_query", who, codes_in)>>
          IN IF results.raised THEN Ret(<<>>, log)
             ELSE Ret(RowCodes(results.rows), log)

\* the row loop shared in shape by Price / Volume / Turnover: rows whose value
\* is None or outside [lo, hi] are skipped, the others contribute their code
RECURSIVE RowLoop(_, _, _, _)
RowLoop(rows, i, lo, hi) ==
  IF i > Len(rows) THEN <<>>
  ELSE LET v == rows[i].val
           skip == \/ IsNone(v)
                   \/ (~IsNone(lo) /\ Val(v) < Val(lo))
                   \/ (~IsNone(hi) /\ Val(v) > Val(hi))
       IN (IF skip THEN <<>> ELSE <<rows[i].code>>) \o RowLoop(rows, i + 1, lo, hi)

\* `if not date: date = fetch_service.get_latest_trade_date()`, outside any try
get_latest_trade_date(fetch) ==
  IF fetch.latestRaises THEN [raised |-> TRUE, date |-> None]
  ELSE [raised |-> FALSE, date |-> fetch.latest]

\* PointInTimeFilter whose query is not inside the try block
PointInTimeFilter_NoCatch(sql, lo, hi, date, codes_in, ctx, who) ==
  IF codes_in = <<>> THEN Ret(<<>>, <<>>)
  ELSE IF IsNone(lo) /\ IsNone(hi) THEN Ret(codes_in, <<>>)
  ELSE LET fetch_service == FetchOf(ctx)
           db_manager == DbOf(ctx)
           l == IF Truthy(date) THEN [raised |-> FALSE, date |-> date]
                ELSE get_latest_trade_date(fetch_service)
           log1 == IF Truthy(date) THEN <<>>
                   ELSE <<Ev("get_latest_trade_date", who, <<>>)>>
       IN IF l.raised THEN Raise(log1)
          ELSE IF ~Truthy(l.date) THEN Ret(<<>>, log1)
          ELSE LET results == execute_query(db_manager, sql)
                   log == log1 \o <<Ev("execute_query", who, codes_in)>>
               IN IF results.raised THEN Raise(log)
                  ELSE Ret(RowLoop(results.rows, 1, lo, hi), log)

\* PointInTimeFilter that resolves the trading day before it looks at the bounds
PointInTimeFilter_DateFirst(sql, lo, hi, date, codes_in, ctx, who) ==
  IF codes_in = <<>> THEN Ret(<<>>, <<>>)
  ELSE LET l == IF Truthy(date) THEN [raised |-> FALSE, date |-> date]
                ELSE get_latest_trade_date(FetchOf(ctx))
           log1 == IF Truthy(date) THEN <<>>
                   ELSE <<Ev("get_latest_trade_date", who, <<>>)>>
       IN IF l.raised THEN Raise(log1)
          ELSE IF ~Truthy(l.date) THEN Ret(<<>>, log1)
          ELSE IF IsNone(lo) /\ IsNone(hi) THEN Ret(codes_in, log1)
          ELSE LET results == execute_query(DbOf(ctx), sql)
                   log == log1 \o <<Ev("execute_query", who, codes_in)>>
               IN IF results.raised THEN Ret(<<>>, log)
                  ELSE Ret(RowLoop(results.rows, 1, lo, hi), log)

\* body shared in shape by PriceCondition, VolumeCondition, TurnoverCondition
PointInTimeFilter(sql, lo, hi, date, codes_in, ctx, who) ==
  IF codes_in = <<>> THEN Ret(<<>>, <<>>)
  ELSE IF IsNone(lo) /\ IsNone(hi) THEN Ret(codes_in, <<>>)
  ELSE LET fetch_service == FetchOf(ctx)
           db_manager == DbOf(ctx)
           l == IF Truthy(date) THEN [raised |-> FALSE, date |-> date]
                ELSE get_latest_trade_date(fetch_service)
           log1 == IF Truthy(date) THEN <<>>
                   ELSE <<Ev("get_latest_trade_date", who, <<>>)>>
       IN IF l.raised THEN Raise(log1)
          ELSE IF ~Truthy(l.date) THEN Ret(<<>>, log1)
          ELSE LET results == execute_query(db_manager, sql)
                   log == log1 \o <<Ev("execute_query", who, codes_in)>>
               IN IF results.raised THEN Ret(<<>>, log)
                  ELSE Ret(RowLoop(results.rows, 1, lo, hi), log)

PriceConditionFilter(self, codes_in, ctx, who) ==
  PointInTimeFilter("PriceCondition", self.params.min_price, self.params.max_price,
                    self.params.date, codes_in, ctx, who)

VolumeConditionFilter(self, codes_in, ctx, who) ==
  PointInTimeFilter("VolumeCondition", self.params.min_volume, self.params.max_volume,
                    self.params.date, codes_in, ctx, who)

TurnoverConditionFilter(self, codes_in, ctx, who) ==
  PointInTimeFilter("TurnoverCondition", self.params.min_turnover,
                    self.params.max_turnover, self.params.date, codes_in, ctx, who)

\* FinancialFilter without the test for an empty input list
FinancialFilter_NoEmptyCheck(sql, lo, hi, codes_in, ctx, who) ==
  IF IsNone(lo) /\ IsNone(hi) THEN Ret(codes_in, <<>>)
  ELSE LET results == execute_query(DbOf(ctx), sql)
           log == <<Ev("execute_query", who, codes_in)>>
       IN IF results.raised THEN Ret(<<>>, log)
          ELSE Ret(RowCodes(results.rows), log)

\* body shared in shape by RevenueCondition, ProfitCondition, EPSCondition
FinancialFilter(sql, lo, hi, codes_in, ctx, who) ==
  IF codes_in = <<>> THEN Ret(<<>>, <<>>)
  ELSE IF IsNone(lo) /\ IsNone(hi) THEN Ret(codes_in, <<>>)
  ELSE LET results == execute_query(DbOf(ctx), sql)
           log == <<Ev("execute_query", who, codes_in)>>
       IN IF results.raised THEN Ret(<<>>, log)
          ELSE Ret(RowCodes(results.rows), log)

RevenueConditionFilter(self, codes_in, ctx, who) ==
  FinancialFilter("RevenueCondition", self.params.min_revenue, self.params.max_revenue,
                  codes_in, ctx, who)

ProfitConditionFilter(self, codes_in, ctx, who) ==
  FinancialFilter("ProfitCondition", self.params.min_profit, self.params.max_profit,
                  codes_in, ctx, who)

EPSConditionFilter(self, codes_in, ctx, who) ==
  FinancialFilter("EPSCondition", self.params.min_eps, self.params.max_eps,
                  codes_in, ctx, who)

\* datetime.strptime(date, '%Y-%m-%d'): succeeds on YYYY-MM-DD text only
IsoDates == {"2024-01-05", "2024-01-08"}
strptime(date) == [raised |-> date \notin IsoDates]

\* fetch_service.fetch_stock_data(code, start, end): a close series, or raises
fetch_stock_data(fetch, code) ==
  IF code \in fetch.dataRaises THEN [raised |-> TRUE, close |-> <<>>]
  ELSE [raised |-> FALSE, close |-> fetch.close[code]]

\* one iteration of the ChangeRateCondition loop: is code kept?
ChangeRateKeeps(fetch, code, days, min_rate, max_rate) ==
  LET df == fetch_stock_data(fetch, code)
      n == Len(df.close)
  IN IF df.raised THEN FALSE
     ELSE IF n < days THEN FALSE
     ELSE LET start_price == df.close[n - days + 1]
              end_price == df.close[n]
              \* numpy float division: x/0 is inf (x > 0) or nan (x = 0)
              below == IF start_price = 0 THEN FALSE
                       ELSE (end_price - start_price) < Val(min_rate) * start_price
              above == IF start_price = 0 THEN end_price > 0
                       ELSE (end_price - start_price) > Val(max_rate) * start_price
          IN ~(~IsNone(min_rate) /\ below) /\ ~(~IsNone(max_rate) /\ above)

RECURSIVE ChangeRateLoop(_, _, _, _, _, _, _)
ChangeRateLoop(codes_in, i, fetch, days, min_rate, max_rate, who) ==
  IF i > Len(codes_in) THEN Ret(<<>>, <<>>)
  ELSE LET rest == ChangeRateLoop(codes_in, i + 1, fetch, days, min_rate, max_rate, who)
           keep == ChangeRateKeeps(fetch, codes_in[i], days, min_rate, max_rate)
       IN Ret((IF keep THEN <<codes_in[i]>> ELSE <<>>) \o rest.ret,
              <<Ev("fetch_stock_data", who, <<codes_in[i]>>)>> \o rest.log)

ChangeRateConditionFilter(self, codes_in, ctx, who) ==
  LET days == self.params.days
      min_rate == self.params.min_rate
      max_rate == self.params.max_rate
      date == self.params.date
  IN IF codes_in = <<>> THEN Ret(<<>>, <<>>)
     ELSE IF IsNone(min_rate) /\ IsNone(max_rate) THEN Ret(codes_in, <<>>)
     \* else branch: `fetch_service = fetch_service` reads an unbound local
     ELSE IF ~HasKey(ctx, "fetch_service") THEN Raise(<<>>)
     ELSE LET fetch_service == ctx.fetch_service
              l == IF Truthy(date) THEN [raised |-> FALSE, date |-> date]
                   ELSE get_latest_trade_date(fetch_service)
              log1 == IF Truthy(date) THEN <<>>
                      ELSE <<Ev("get_latest_trade_date", who, <<>>)>>
          IN IF l.raised THEN Raise(log1)
             ELSE IF ~Truthy(l.date) THEN Ret(<<>>, log1)
             ELSE IF strptime(Val(l.date)).raised THEN Raise(log1)
             ELSE LET r == ChangeRateLoop(codes_in, 1, fetch_service, days,
                                          min_rate, max_rate, who)
                  IN Ret(r.ret, log1 \o r.log)

\* ------------------------------------------- indicator conditions (talib)
\* PERIOD_PARAMS: the same parameters for every period type
macd_fast == 12
macd_slow == 26
macd_signal == 9
boll_period == 20
Min(a, b) == IF a < b THEN a ELSE b
Max(a, b) == IF a > b THEN a ELSE b

\* talib.EMA / talib.BBANDS / Series.rolling(window).mean(): the number of
\* leading rows of the output column that are NaN
WarmupRows(timeperiod) == timeperiod - 1

\* calculate_macd on n >= 3 rows: NaN rows at the head of DIF and of DEA
MacdNaNRows(n) ==
  LET fast0 == IF n < Max(macd_slow, macd_signal) THEN Min(macd_fast, n - 1) ELSE macd_fast
      slow0 == IF n < Max(macd_slow, macd_signal) THEN Min(macd_slow, n) ELSE macd_slow
      sig0 == IF n < Max(macd_slow, macd_signal) THEN Min(macd_signal, n - 1) ELSE macd_signal
      fast_period == Max(2, Min(fast0, n))
      slow1 == Max(2, Min(slow0, n))
      signal_period == Max(2, Min(sig0, n))
      slow_period == IF slow1 <= fast_period THEN Min(fast_period + 1, n) ELSE slow1
      dif == Max(WarmupRows(fast_period), WarmupRows(slow_period))
  IN [DIF |-> Min(n, dif), DEA |-> Min(n, dif + WarmupRows(signal_period))]

\* calculate_boll on n >= 3 rows: NaN rows at the head of the three bands
BollNaNRows(n) ==
  LET p0 == IF n < boll_period THEN Min(boll_period, n) ELSE boll_period
  IN Min(n, WarmupRows(Max(2, Min(p0, n))))

\* one iteration of the MACDCondition loop: is code appended?
MACDKeeps(fetch, code, signal) ==
  LET df == fetch_stock_data(fetch, code)
      n == Len(df.close)
  IN IF df.raised THEN FALSE
     ELSE IF n < 30 THEN FALSE
     ELSE IF MacdNaNRows(n).DIF > 0 \/ MacdNaNRows(n).DEA > 0 THEN FALSE
     ELSE /\ signal \in {"golden_cross", "death_cross", "positive", "negative"}
          /\ code \in fetch.signalOn

\* one iteration of the BOLLCondition loop: is code appended?
BOLLKeeps(fetch, code, signal, lookback_days) ==
  LET df == fetch_stock_data(fetch, code)
      n == Len(df.close)
  IN IF df.raised THEN FALSE
     ELSE IF n < 20 THEN FALSE
     ELSE IF BollNaNRows(n) > 0 THEN FALSE
     ELSE IF signal \in {"upper", "lower", "middle"} THEN code \in fetch.signalOn
     ELSE IF signal \in {"top_divergence", "bottom_divergence"}
       THEN n >= lookback_days /\ code \in fetch.signalOn
     ELSE FALSE

RECURSIVE SumLast(_, _, _)
SumLast(close, i, k) == IF k = 0 THEN 0 ELSE close[i] + SumLast(close, i - 1, k - 1)

\* one iteration of the MovingAverageCondition loop; price > ma is compared
\* as price * period > sum of the window
MovingAverageKeeps(fetch, code, signal, period) ==
  LET df == fetch_stock_data(fetch, code)
      n == Len(df.close)
      i_prev == IF n > 1 THEN n - 1 ELSE n
  IN IF df.raised THEN FALSE
     ELSE IF n < period THEN FALSE
     \* rolling(window=0) raises ValueError, caught by the loop's except
     ELSE IF period < 1 THEN FALSE
     ELSE IF n >= 1 /\ WarmupRows(period) > 0 THEN FALSE
     ELSE IF n = 0 THEN FALSE
     ELSE LET price == df.close[n] * period
              ma == SumLast(df.close, n, period)
              prev_price == df.close[i_prev] * period
              prev_ma == SumLast(df.close, i_prev, period)
          IN CASE signal = "above" -> price > ma
               [] signal = "below" -> price < ma
               [] signal = "cross_up" -> prev_price <= prev_ma /\ price > ma
               [] signal = "cross_down" -> prev_price >= prev_ma /\ price < ma
               [] OTHER -> FALSE

\* the loop `for code in stock_codes` of the three indicator conditions
RECURSIVE IndicatorLoop(_, _, _, _, _)
IndicatorLoop(self, codes_in, i, fetch, who) ==
  IF i > Len(codes_in) THEN Ret(<<>>, <<>>)
  ELSE LET rest == IndicatorLoop(self, codes_in, i + 1, fetch, who)
           code == codes_in[i]
           keep == CASE self.type = "MACDCondition" ->
                          MACDKeeps(fetch, code, self.params.signal)
                     [] self.type = "BOLLCondition" ->
                          BOLLKeeps(fetch, code, self.params.signal,
                                    self.params.lookback_days)
                     [] OTHER -> MovingAverageKeeps(fetch, code, self.params.signal,
                                                    self.params.period)
       IN Ret((IF keep THEN <<code>> ELSE <<>>) \o rest.ret,
              <<Ev("fetch_stock_data", who, <<code>>)>> \o rest.log)

MACDConditionFilter(self, codes_in, ctx, who) ==
  IF codes_in = <<>> THEN Ret(<<>>, <<>>)
  \* else branch: `fetch_service = fetch_service` reads an unbound local
  ELSE IF ~HasKey(ctx, "fetch_service") THEN Raise(<<>>)
  ELSE IndicatorLoop(self, codes_in, 1, ctx.fetch_service, who)

BOLLConditionFilter(self, codes_in, ctx, who) ==
  IF codes_in = <<>> THEN Ret(<<>>, <<>>)
  ELSE IndicatorLoop(self, codes_in, 1, FetchOf(ctx), who)

MovingAverageConditionFilter(self, codes_in, ctx, who) ==
  IF codes_in = <<>> THEN Ret(<<>>, <<>>)
  \* else branch: `fetch_service = fetch_service` reads an unbound local
  ELSE IF ~HasKey(ctx, "fetch_service") THEN Raise(<<>>)
  ELSE IndicatorLoop(self, codes_in, 1, ctx.fetch_service, who)

\* ------------------------------------------------------ GrowthRateCondition
\* db_manager.execute_query(sql, (code,)) of the per-identifier query: the
\* values of the report rows of code, newest first, or an exception
execute_query_code(db, code) ==
  IF code \in db.periodRaises THEN [raised |-> TRUE, rows |-> <<>>]
  ELSE [raised |-> FALSE, rows |-> db.periods[code]]

Abs(x) == IF x < 0 THEN 0 - x ELSE x

\* one iteration of the GrowthRateCondition loop: is code appended?
\* growth_rate < min_growth is compared as cur - prev < min_growth * |prev|
GrowthRateKeeps(db, code, min_growth, max_growth) ==
  LET results == execute_query_code(db, code)
  IN IF results.raised THEN FALSE
     ELSE IF Len(results.rows) < 2 THEN FALSE
     ELSE LET current_value == results.rows[1]
              previous_value == results.rows[2]
          IN IF IsNone(current_value) \/ IsNone(previous_value) THEN FALSE
             ELSE IF Val(previous_value) = 0 THEN FALSE
             ELSE LET diff == Val(current_value) - Val(previous_value)
                      base == Abs(Val(previous_value))
                  IN /\ ~(~IsNone(min_growth) /\ diff < Val(min_growth) * base)
                     /\ ~(~IsNone(max_growth) /\ diff > Val(max_growth) * base)

RECURSIVE GrowthRateLoop(_, _, _, _, _, _)
GrowthRateLoop(codes_in, i, db, min_growth, max_growth, who) ==
  IF i > Len(codes_in) THEN Ret(<<>>, <<>>)
  ELSE LET rest == GrowthRateLoop(codes_in, i + 1, db, min_growth, max_growth, who)
           keep == GrowthRateKeeps(db, codes_in[i], min_growth, max_growth)
       IN Ret((IF keep THEN <<codes_in[i]>> ELSE <<>>) \o rest.ret,
              <<Ev("execute_query", who, <<codes_in[i]>>)>> \o rest.log)

GrowthRateConditionFilter(self, codes_in, ctx, who) ==
  LET metric == self.params.metric
      min_growth == self.params.min_growth
      max_growth == self.params.max_growth
  IN IF codes_in = <<>> THEN Ret(<<>>, <<>>)
     ELSE IF IsNone(min_growth) /\ IsNone(max_growth) THEN Ret(codes_in, <<>>)
     ELSE IF metric \notin {"revenue", "profit"} THEN Ret(<<>>, <<>>)
     ELSE GrowthRateLoop(codes_in, 1, DbOf(ctx), min_growth, max_growth, who)

\* -------------------------------------------------------------- combinators
RECURSIVE Filter(_, _, _, _)
RECURSIVE AndLoop(_, _, _, _, _, _)
RECURSIVE OrLoop(_, _, _, _, _, _, _)
RECURSIVE NotLoop(_, _, _, _, _, _, _)
RECURSIVE AndLoop_NoBreak(_, _, _, _, _, _)
RECURSIVE OrLoop_Chained(_, _, _, _, _, _, _)

\* AndLoop without the early exit on an empty intermediate result
AndLoop_NoBreak(conditions, i, res, log, ctx, who) ==
  IF i > Len(conditions) THEN Ret(res, log)
  ELSE LET r == Filter(conditions[i], res, ctx, Append(who, i))
       IN IF r.raised THEN Raise(log \o r.log)
          ELSE AndLoop_NoBreak(conditions, i + 1, r.ret, log \o r.log, ctx, who)

\* the for loop of AndCombinator.filter from child i on: child i filters the
\* previous result; an empty result ends the loop
AndLoop(conditions, i, res, log, ctx, who) ==
  IF i > Len(conditions) THEN Ret(res, log)
  ELSE LET r == Filter(conditions[i], res, ctx, Append(who, i))
       IN IF r.raised THEN Raise(log \o r.log)
          ELSE IF r.ret = <<>> THEN Ret(r.ret, log \o r.log)
          ELSE AndLoop(conditions, i + 1, r.ret, log \o r.log, ctx, who)

AndCombinatorFilter(self, codes_in, ctx, who) ==
  IF self.conditions = <<>> THEN Ret(codes_in, <<>>)
  ELSE IF codes_in = <<>> THEN Ret(<<>>, <<>>)
  ELSE AndLoop(self.conditions, 1, codes_in, <<>>, ctx, who)

\* OrLoop that hands each child the previous child's output
OrLoop_Chained(conditions, i, codes_in, result_set, log, ctx, who) ==
  IF i > Len(conditions) THEN [set |-> result_set, raised |-> FALSE, log |-> log]
  ELSE LET filtered == Filter(conditions[i], codes_in, ctx, Append(who, i))
       IN IF filtered.raised
          THEN [set |-> result_set, raised |-> TRUE, log |-> log \o filtered.log]
          ELSE OrLoop_Chained(conditions, i + 1, filtered.ret,
                              result_set \cup Range(filtered.ret),
                              log \o filtered.log, ctx, who)

\* the for loop of OrCombinator.filter from child i on: every child filters
\* codes_in and result_set collects the outputs
OrLoop(conditions, i, codes_in, result_set, log, ctx, who) ==
  IF i > Len(conditions) THEN [set |-> result_set, raised |-> FALSE, log |-> log]
  ELSE LET filtered == Filter(conditions[i], codes_in, ctx, Append(who, i))
       IN IF filtered.raised
          THEN [set |-> result_set, raised |-> TRUE, log |-> log \o filtered.log]
          ELSE OrLoop(conditions, i + 1, codes_in, result_set \cup Range(filtered.ret),
                      log \o filtered.log, ctx, who)

\* OrCombinator.filter without the zero-children early return
OrCombinatorFilter_NoZeroCheck(self, codes_in, ctx, who) ==
  IF codes_in = <<>> THEN Ret(<<>>, <<>>)
  ELSE LET u == OrLoop(self.conditions, 1, codes_in, {}, <<>>, ctx, who)
       IN IF u.raised THEN Raise(u.log)
          ELSE Ret(ListOfSet(u.set), u.log)

OrCombinatorFilter(self, codes_in, ctx, who) ==
  IF self.conditions = <<>> THEN Ret(codes_in, <<>>)
  ELSE IF codes_in = <<>> THEN Ret(<<>>, <<>>)
  ELSE LET u == OrLoop(self.conditions, 1, codes_in, {}, <<>>, ctx, who)
       IN IF u.raised THEN Raise(u.log)
          ELSE Ret(ListOfSet(u.set), u.log)

\* NotLoop that collects the matches of one child only
NotLoop_FirstOnly(conditions, i, codes_in, matched_set, log, ctx, who) ==
  LET matched == Filter(conditions[i], codes_in, ctx, Append(who, i))
  IN IF matched.raised
       THEN [set |-> matched_set, raised |-> TRUE, log |-> log \o matched.log]
     ELSE [set |-> matched_set \cup Range(matched.ret), raised |-> FALSE,
           log |-> log \o matched.log]

\* the for loop of NotCombinator.filter from child i on
NotLoop(conditions, i, codes_in, matched_set, log, ctx, who) ==
  IF i > Len(conditions) THEN [set |-> matched_set, raised |-> FALSE, log |-> log]
  ELSE LET matched == Filter(conditions[i], codes_in, ctx, Append(who, i))
       IN IF matched.raised
          THEN [set |-> matched_set, raised |-> TRUE, log |-> log \o matched.log]
          ELSE NotLoop(conditions, i + 1, codes_in, matched_set \cup Range(matched.ret),
                       log \o matched.log, ctx, who)

\* NotCombinator.filter that returns the matched codes instead of the others
NotCombinatorFilter_Matched(self, codes_in, ctx, who) ==
  IF self.conditions = <<>> THEN Ret(codes_in, <<>>)
  ELSE IF codes_in = <<>> THEN Ret(<<>>, <<>>)
  ELSE LET m == NotLoop(self.conditions, 1, codes_in, {}, <<>>, ctx, who)
           all_set == Range(codes_in)
       IN IF m.raised THEN Raise(m.log)
          ELSE Ret(ListOfSet(all_set \cap m.set), m.log)

\* NotCombinator.filter that complements against every known code
NotCombinatorFilter_Universe(self, codes_in, ctx, who) ==
  IF self.conditions = <<>> THEN Ret(codes_in, <<>>)
  ELSE IF codes_in = <<>> THEN Ret(<<>>, <<>>)
  ELSE LET m == NotLoop(self.conditions, 1, codes_in, {}, <<>>, ctx, who)
       IN IF m.raised THEN Raise(m.log)
          ELSE Ret(ListOfSet(Codes \ m.set), m.log)

NotCombinatorFilter(self, codes_in, ctx, who) ==
  IF self.conditions = <<>> THEN Ret(codes_in, <<>>)
  ELSE IF codes_in = <<>> THEN Ret(<<>>, <<>>)
  ELSE LET m == NotLoop(self.conditions, 1, codes_in, {}, <<>>, ctx, who)
           all_set == Range(codes_in)
       IN IF m.raised THEN Raise(m.log)
          ELSE Ret(ListOfSet(all_set \ m.set), m.log)

\* condition.filter(stock_codes, context): dynamic dispatch on the class
Dispatch(c, codes_in, ctx, who) ==
  CASE c.type = "AndCombinator" -> AndCombinatorFilter(c, codes_in, ctx, who)
    [] c.type = "OrCombinator" -> OrCombinatorFilter(c, codes_in, ctx, who)
    [] c.type = "NotCombinator" -> NotCombinatorFilter(c, codes_in, ctx, who)
    [] c.type = "CodeListCondition" -> Ret(CodeListConditionFilter(c, codes_in), <<>>)
    [] c.type = "MarketCondition" -> MarketConditionFilter(c, codes_in, ctx, who)
    [] c.type = "MarketValueCondition" -> MarketValueConditionFilter(c, codes_in, ctx, who)
    [] c.type = "IndustryCondition" -> IndustryConditionFilter(c, codes_in, ctx, who)
    [] c.type = "ListDateCondition" -> ListDateConditionFilter(c, codes_in, ctx, who)
    [] c.type = "CompanyTypeCondition" -> CompanyTypeConditionFilter(c, codes_in, ctx, who)
    [] c.type = "PriceCondition" -> PriceConditionFilter(c, codes_in, ctx, who)
    [] c.type = "VolumeCondition" -> VolumeConditionFilter(c, codes_in, ctx, who)
    [] c.type = "TurnoverCondition" -> TurnoverConditionFilter(c, codes_in, ctx, who)
    [] c.type = "RevenueCondition" -> RevenueConditionFilter(c, codes_in, ctx, who)
    [] c.type = "ProfitCondition" -> ProfitConditionFilter(c, codes_in, ctx, who)
    [] c.type = "EPSCondition" -> EPSConditionFilter(c, codes_in, ctx, who)
    [] c.type = "ChangeRateCondition" -> ChangeRateConditionFilter(c, codes_in, ctx, who)
    [] c.type = "MACDCondition" -> MACDConditionFilter(c, codes_in, ctx, who)
    [] c.type = "BOLLCondition" -> BOLLConditionFilter(c, codes_in, ctx, who)
    [] c.type = "MovingAverageCondition" -> MovingAverageConditionFilter(c, codes_in, ctx, who)
    [] c.type = "GrowthRateCondition" -> GrowthRateConditionFilter(c, codes_in, ctx, who)

\* a filter call: the invocation is logged, then the class's body runs
Filter(c, codes_in, ctx, who) ==
  LET r == Dispatch(c, codes_in, ctx, who)
  IN [r EXCEPT !.log = <<Ev("filter", who, codes_in)>> \o r.log]

\* ------------------------------------------------------- ScreeningService
\* the stock table: the rows SELECT_ALL_STOCKS returns, whether that query
\* raises, the codes SELECT_STOCK finds, and the codes for which it raises
catalog_default == [rows |-> <<>>, raises |-> FALSE, found |-> {}, getRaises |-> {}]
\* StockService.get_all_stocks: the rows, or [] when the query raises
get_all_stocks(cat) == IF cat.raises THEN <<>> ELSE cat.rows

\* StockService.get_stock: the row of code, or None when absent or on failure
get_stock(cat, code) ==
  IF code \in cat.getRaises THEN None
  ELSE IF code \in cat.found THEN Some([code |-> code])
  ELSE None

\* get_initial_codes that reloads when the cached list is empty (`if not cache`)
get_initial_codes_Falsy(initial_codes, cache, cat) ==
  IF ~IsNone(initial_codes)
    THEN [codes |-> Val(initial_codes), cache |-> cache, queried |-> FALSE]
  ELSE IF IsNone(cache) \/ cache = Some(<<>>)
    THEN LET all_stocks == get_all_stocks(cat)
         IN [codes |-> RowCodes(all_stocks), cache |-> Some(RowCodes(all_stocks)),
             queried |-> TRUE]
  ELSE [codes |-> Val(cache), cache |-> cache, queried |-> FALSE]

\* get_initial_codes that never stores the catalog in the cache
get_initial_codes_NoStore(initial_codes, cache, cat) ==
  IF ~IsNone(initial_codes)
    THEN [codes |-> Val(initial_codes), cache |-> cache, queried |-> FALSE]
  ELSE IF IsNone(cache)
    THEN [codes |-> RowCodes(get_all_stocks(cat)), cache |-> cache, queried |-> TRUE]
  ELSE [codes |-> Val(cache), cache |-> cache, queried |-> FALSE]

\* ScreeningService._get_initial_codes: the universe, the cache afterwards,
\* and whether the catalog was queried
get_initial_codes(initial_codes, cache, cat) ==
  IF ~IsNone(initial_codes)
    THEN [codes |-> Val(initial_codes), cache |-> cache, queried |-> FALSE]
  ELSE IF IsNone(cache)
    THEN LET all_stocks == get_all_stocks(cat)
         IN [codes |-> RowCodes(all_stocks), cache |-> Some(RowCodes(all_stocks)),
             queried |-> TRUE]
  ELSE [codes |-> Val(cache), cache |-> cache, queried |-> FALSE]

\* prepare_context that always installs the process-default handles
prepare_context_Override(ctx) ==
  [ctx EXCEPT !.none = FALSE,
              !.keys = (IF ctx.none THEN {} ELSE @) \cup {"db_manager", "fetch_service"},
              !.db_manager = db_manager_default,
              !.fetch_service = fetch_data_service_default]

\* ScreeningService._prepare_context: None becomes a new mapping, then
\* setdefault fills the two collaborator slots
prepare_context(ctx) ==
  LET keys == IF ctx.none THEN {} ELSE ctx.keys
  IN [ctx EXCEPT !.none = FALSE,
                 !.keys = keys \cup {"db_manager", "fetch_service"},
                 !.db_manager = IF "db_manager" \in keys THEN @ ELSE db_manager_default,
                 !.fetch_service =
                    IF "fetch_service" \in keys THEN @ ELSE fetch_data_service_default]

\* the caller's mapping object after the call: setdefault writes into it
CallerMapping(ctx) == IF ctx.none THEN ctx ELSE prepare_context(ctx)

\* the hydration loop of screen_stocks: a record per code get_stock finds
RECURSIVE Hydrate(_, _, _)
Hydrate(cat, filtered_codes, i) ==
  IF i > Len(filtered_codes) THEN <<>>
  ELSE LET stock == get_stock(cat, filtered_codes[i])
       IN (IF IsNone(stock) THEN <<>> ELSE <<Val(stock)>>)
            \o Hydrate(cat, filtered_codes, i + 1)

\* the outcome of one entry point, as the record kept in call
Outcome(op, initial_codes, ctx, cache, u, passed, r, codes, count, records) ==
  [op |-> op, initial_codes |-> initial_codes, given |-> ctx, cacheBefore |-> cache,
   cacheAfter |-> u.cache, queried |-> u.queried, universe |-> u.codes,
   passed |-> passed, filter |-> r, codes |-> codes, count |-> count,
   records |-> records]

screen_stocks(cond, initial_codes, ctx, cache, cat) ==
  LET context1 == prepare_context(ctx)
      u == get_initial_codes(initial_codes, cache, cat)
      r == Filter(cond, u.codes, context1, <<>>)
      result1 == IF r.raised THEN <<>> ELSE Hydrate(cat, r.ret, 1)
  IN Outcome("screen_stocks", initial_codes, ctx, cache, u, context1, r,
             <<>>, 0, result1)

\* count_stocks that filters once for the list and once more for its length
count_stocks_Twice(cond, initial_codes, ctx, cache, cat) ==
  LET context1 == prepare_context(ctx)
      u == get_initial_codes(initial_codes, cache, cat)
      r == Filter(cond, u.codes, context1, <<>>)
      r2 == Filter(cond, u.codes, context1, <<>>)
  IN Outcome("count_stocks", initial_codes, ctx, cache, u, context1,
             [r EXCEPT !.log = r.log \o r2.log], <<>>,
             IF r.raised THEN 0 ELSE Len(r2.ret), <<>>)

count_stocks(cond, initial_codes, ctx, cache, cat) ==
  LET context1 == prepare_context(ctx)
      u == get_initial_codes(initial_codes, cache, cat)
      r == Filter(cond, u.codes, context1, <<>>)
  IN Outcome("count_stocks", initial_codes, ctx, cache, u, context1, r,
             <<>>, IF r.raised THEN 0 ELSE Len(r.ret), <<>>)

get_stock_codes(cond, initial_codes, ctx, cache, cat) ==
  LET context1 == prepare_context(ctx)
      u == get_initial_codes(initial_codes, cache, cat)
      r == Filter(cond, u.codes, context1, <<>>)
  IN Outcome("get_stock_codes", initial_codes, ctx, cache, u, context1, r,
             IF r.raised THEN <<>> ELSE r.ret, 0, <<>>)

\* ------------------------------------------------------------ state space
Inputs == SeqsUpTo(Codes, MaxLen)
Perms == {p \in [1..Cardinality(Codes) -> Codes] : Range(p) = Codes}
Row(c, v) == [code |-> c, val |-> v]
NoResult == [ret |-> <<>>, raised |-> FALSE, log |-> <<>>]

CodeList(S, e) == [type |-> "CodeListCondition", params |-> [codes |-> S, exclude |-> e]]
Market(m) == [type |-> "MarketCondition", params |-> [market |-> m]]
MarketValue(lo, hi) ==
  [type |-> "MarketValueCondition", params |-> [min_value |-> lo, max_value |-> hi]]
Combinator(t, cs) == [type |-> t, conditions |-> cs]
CombinatorTypes == {"AndCombinator", "OrCombinator", "NotCombinator"}
IsCombinator(c) == c.type \in CombinatorTypes

\* children of the flat combinators
CombLeaves ==
  {CodeList({"A", "B"}, FALSE), CodeList({"B", "C"}, FALSE), CodeList({}, FALSE),
   CodeList({"A"}, TRUE), Market(Some("SH")), MarketValue(Some(1), None)}
FlatTrees == {Combinator(t, cs) : t \in CombinatorTypes, cs \in SeqsUpTo(CombLeaves, MaxChildren)}

\* combinators nested in combinators, d levels deep
InnerLeaves == {CodeList({"A", "B"}, FALSE), Market(Some("SH"))}
InnerTrees ==
  {Combinator(t, cs) : t \in CombinatorTypes, cs \in SeqsUpTo(InnerLeaves, MaxChildren)}
OuterLeaf == CodeList({"B", "C"}, FALSE)
RECURSIVE Nest(_)
Nest(d) ==
  IF d = 1 THEN InnerTrees
  ELSE LET inner == Nest(d - 1)
       IN {Combinator(t, cs) : t \in CombinatorTypes,
             cs \in {<<i>> : i \in inner}
                    \cup (IF d > 2 THEN {}
                          ELSE {<<OuterLeaf, i>> : i \in inner}
                               \cup {<<i, OuterLeaf>> : i \in inner})}
NestedTrees == UNION {Nest(d) : d \in 2..MaxDepth}

RECURSIVE UsesDb(_)
UsesDb(c) ==
  IF IsCombinator(c) THEN \E i \in 1..Len(c.conditions) : UsesDb(c.conditions[i])
  ELSE c.type /= "CodeListCondition"
RECURSIVE UsesSet(_)
UsesSet(c) ==
  /\ IsCombinator(c)
  /\ \/ c.type /= "AndCombinator" /\ c.conditions /= <<>>
     \/ \E i \in 1..Len(c.conditions) : UsesSet(c.conditions[i])

Ctx(db, fetch) ==
  [none |-> FALSE, keys |-> {"db_manager", "fetch_service"},
   db_manager |-> db, fetch_service |-> fetch]
CtxNone ==
  [none |-> TRUE, keys |-> {}, db_manager |-> db_manager_default,
   fetch_service |-> fetch_data_service_default]
CombContexts ==
  {Ctx([raises |-> {}, rows |-> <<Row("A", None)>>], fetch_data_service_default),
   Ctx([raises |-> {"MarketCondition"}, rows |-> <<Row("C", None), Row("A", None)>>],
       fetch_data_service_default)}

\* ----------------------------------------------- single leaf conditions
Opt2 == {<<None, None>>, <<Some(2), None>>, <<None, Some(2)>>}
OptStr(v) == {None, Some(""), Some(v)}

PlainLeaves ==
  {CodeList(S, e) : S \in SUBSET Codes, e \in BOOLEAN}
CatalogLeaves ==
  {Market(m) : m \in OptStr("SH")}
  \cup {MarketValue(b[1], b[2]) : b \in Opt2}
  \cup {[type |-> "IndustryCondition",
         params |-> [industry_name |-> b[1], industry_code |-> b[2]]] :
          b \in {<<None, None>>, <<Some("bank"), None>>, <<Some(""), Some("J66")>>}}
  \cup {[type |-> "ListDateCondition", params |-> [min_date |-> b[1], max_date |-> b[2]]] :
          b \in {<<None, None>>, <<Some("2020-01-01"), None>>, <<None, Some("2020-01-01")>>}}
  \cup {[type |-> "CompanyTypeCondition", params |-> [company_type |-> m]] :
          m \in OptStr("private")}
  \cup {[type |-> "RevenueCondition", params |-> [min_revenue |-> b[1], max_revenue |-> b[2]]] :
          b \in Opt2}
  \cup {[type |-> "ProfitCondition", params |-> [min_profit |-> b[1], max_profit |-> b[2]]] :
          b \in Opt2}
  \cup {[type |-> "EPSCondition", params |-> [min_eps |-> b[1], max_eps |-> b[2]]] :
          b \in Opt2}
DateParams == {None, Some(""), Some("2024-01-08")}
DailyLeaves ==
  {[type |-> "PriceCondition",
    params |-> [min_price |-> b[1], max_price |-> b[2], date |-> d]] :
     b \in Opt2, d \in DateParams}
  \cup {[type |-> "VolumeCondition",
         params |-> [min_volume |-> b[1], max_volume |-> b[2], date |-> d]] :
          b \in Opt2, d \in DateParams}
  \cup {[type |-> "TurnoverCondition",
         params |-> [min_turnover |-> b[1], max_turnover |-> b[2], date |-> d]] :
          b \in Opt2, d \in DateParams}
ChangeRateLeaves ==
  {[type |-> "ChangeRateCondition",
    params |-> [days |-> n, min_rate |-> b[1], max_rate |-> b[2], date |-> d]] :
     n \in {1, 2}, b \in {<<None, None>>, <<Some(0), None>>, <<None, Some(0)>>},
     d \in {None, Some("2024-01-08"), Some("20240108")}}

SqlNames ==
  {"MarketCondition", "MarketValueCondition", "IndustryCondition", "ListDateCondition",
   "CompanyTypeCondition", "PriceCondition", "VolumeCondition", "TurnoverCondition",
   "RevenueCondition", "ProfitCondition", "EPSCondition"}

\* data-access handles: every query raises or none does; any rows come back
CatalogDbs ==
  {[raises |-> f, rows |-> r] :
     f \in {{}, SqlNames}, r \in SeqsUpTo({Row(c, None) : c \in Codes}, MaxLen)}
DailyDbs ==
  {[raises |-> f, rows |-> r] :
     f \in {{}, SqlNames},
     r \in SeqsUpTo({Row(c, v) : c \in {"A", "C"}, v \in {None, Some(1), Some(3)}}, MaxLen)}

\* market-data handles: the latest trading day, and a close series per code
Closes ==
  {[c \in Codes |-> CASE c = "A" -> <<1, 2>> [] c = "B" -> <<2, 1>> [] OTHER -> <<0, 1>>],
   [c \in Codes |-> CASE c = "A" -> <<2>> [] c = "B" -> <<>> [] OTHER -> <<1, 1>>]}
Calendars ==
  {[latest |-> Some("2024-01-05"), latestRaises |-> FALSE],
   [latest |-> None, latestRaises |-> FALSE],
   [latest |-> None, latestRaises |-> TRUE]}
Fetch(cal, dr, cl) ==
  [latest |-> cal.latest, latestRaises |-> cal.latestRaises, dataRaises |-> dr,
   close |-> cl, signalOn |-> {}]
CalendarHandles ==
  {Fetch(cal, {}, fetch_data_service_default.close) : cal \in Calendars}
SeriesHandles ==
  {Fetch(cal, dr, cl) :
     cal \in Calendars \cup {[latest |-> Some("2024/01/05"), latestRaises |-> FALSE]},
     dr \in {{}, {"A"}}, cl \in Closes}

\* per-identifier conditions and the handles they read
GrowthRateLeaves ==
  {[type |-> "GrowthRateCondition",
    params |-> [metric |-> m, min_growth |-> b[1], max_growth |-> b[2],
                period |-> "quarter"]] :
     m \in {"revenue", "eps"},
     b \in {<<None, None>>, <<Some(0), None>>, <<None, Some(1)>>}}
IndicatorLeaves ==
  {[type |-> "MACDCondition", params |-> [signal |-> g, period |-> "D", days |-> 60]] :
     g \in {"golden_cross", "positive"}}
  \cup {[type |-> "BOLLCondition",
         params |-> [signal |-> g, period |-> "D", days |-> 60, lookback_days |-> 20]] :
          g \in {"upper", "top_divergence"}}
  \cup {[type |-> "MovingAverageCondition",
         params |-> [signal |-> g, period |-> n, days |-> 60]] :
          g \in {"above", "cross_up"}, n \in {1, 2}}
PeriodRows ==
  {<<>>, <<Some(2)>>, <<Some(2), Some(1)>>, <<Some(1), Some(2)>>,
   <<Some(1), None>>, <<Some(1), Some(0)>>}
GrowthDbs ==
  {[raises |-> {}, rows |-> <<>>, periodRaises |-> f, periods |-> p] :
     f \in {{}, {"A"}}, p \in [Codes -> PeriodRows]}
LongCloses ==
  {[c \in Codes |-> CASE c = "A" -> [i \in 1..31 |-> i]
                      [] c = "B" -> [i \in 1..30 |-> 1]
                      [] OTHER -> <<1, 2>>],
   [c \in Codes |-> CASE c = "A" -> <<2, 1>>
                      [] c = "B" -> [i \in 1..20 |-> 21 - i]
                      [] OTHER -> <<3>>]}
IndicatorHandles ==
  {[Fetch(fetch_data_service_default, dr, cl) EXCEPT !.signalOn = g] :
     dr \in {{}, {"A"}}, cl \in LongCloses, g \in {{}, Codes}}

\* a context that is an empty mapping
CtxEmpty ==
  [none |-> FALSE, keys |-> {}, db_manager |-> db_manager_default,
   fetch_service |-> fetch_data_service_default]

LeafContexts(c) ==
  {CtxNone, CtxEmpty} \cup
  CASE c.type = "CodeListCondition" -> {}
    [] c.type \in {"PriceCondition", "VolumeCondition", "TurnoverCondition"} ->
         {Ctx(db, f) : db \in DailyDbs, f \in CalendarHandles}
    [] c.type = "ChangeRateCondition" ->
         {Ctx(db_manager_default, f) : f \in SeriesHandles}
    [] c.type \in {"MACDCondition", "BOLLCondition", "MovingAverageCondition"} ->
         {Ctx(db_manager_default, f) : f \in IndicatorHandles}
    [] c.type = "GrowthRateCondition" ->
         {Ctx(db, fetch_data_service_default) : db \in GrowthDbs}
    [] OTHER -> {Ctx(db, fetch_data_service_default) : db \in CatalogDbs}

\* the value of call before any call
NoCall ==
  [op |-> "none", initial_codes |-> None, given |-> CtxNone, cacheBefore |-> None,
   cacheAfter |-> None, queried |-> FALSE, universe |-> <<>>, passed |-> CtxNone,
   filter |-> NoResult, codes |-> <<>>, count |-> 0, records |-> <<>>]
\* the callers that may have a call in progress, and a caller with none
Callers == {"c1", "c2"}
Idle ==
  [pc |-> "idle", initial_codes |-> None, ctx |-> CtxNone, codes |-> <<>>,
   stack |-> <<>>, out |-> [ret |-> <<>>, raised |-> FALSE], days |-> {},
   overlapped |-> FALSE]
NoThreads == [t \in Callers |-> Idle]
\* no ScreeningService is in play
NoService ==
  /\ all_stocks_cache = None
  /\ catalog = catalog_default
  /\ call = NoCall
  /\ queriesSinceClear = 0
  /\ threads = NoThreads

\* a combinator tree, an input, the collaborators it reads and the set order
Init ==
  /\ condition \in FlatTrees \cup NestedTrees
  /\ stock_codes \in Inputs
  /\ context \in (IF UsesDb(condition) THEN CombContexts ELSE {CtxNone})
  /\ hashOrder \in (IF UsesSet(condition) THEN Perms ELSE {<<"A", "B", "C">>})
  /\ result = NoResult
  /\ pc = "ready"
  /\ NoService

\* one call condition.filter(stock_codes, context)
FilterCall ==
  /\ pc = "ready"
  /\ result' = Filter(condition, stock_codes, context, <<>>)
  /\ pc' = "done"
  /\ UNCHANGED <<condition, stock_codes, context, hashOrder>>
  /\ UNCHANGED service_vars

Next == FilterCall

Spec == Init /\ [][Next]_vars

\* a single leaf condition, an input and the collaborators it reads
InitLeaf ==
  /\ condition \in PlainLeaves \cup CatalogLeaves \cup DailyLeaves \cup ChangeRateLeaves
                   \cup IndicatorLeaves \cup GrowthRateLeaves
  /\ stock_codes \in Inputs
  /\ context \in LeafContexts(condition)
  /\ hashOrder = <<"A", "B", "C">>
  /\ result = NoResult
  /\ pc = "ready"
  /\ NoService

SpecLeaf == InitLeaf /\ [][Next]_vars

\* ------------------------------------------------- a ScreeningService in use
ServiceConditions ==
  {CodeList({"A", "B"}, FALSE), Market(Some("SH")),
   Combinator("OrCombinator", <<CodeList({"A"}, FALSE), CodeList({"C"}, FALSE)>>),
   [type |-> "PriceCondition",
    params |-> [min_price |-> Some(2), max_price |-> None, date |-> None]]}
InitialCodes == {None, Some(<<>>), Some(<<"A", "B">>), Some(<<"C", "A">>)}
CallerDb ==
  [db_manager_default EXCEPT !.rows = <<Row("A", Some(3)), Row("C", Some(1))>>]
CallerFetch == [fetch_data_service_default EXCEPT !.latestRaises = TRUE]
CallerContexts ==
  {CtxNone, CtxEmpty,
   [CtxEmpty EXCEPT !.keys = {"db_manager"}, !.db_manager = CallerDb],
   [CtxEmpty EXCEPT !.keys = {"fetch_service", "note"}, !.fetch_service = CallerFetch],
   Ctx(CallerDb, [CallerFetch EXCEPT !.latestRaises = FALSE])}
Catalogs ==
  {[rows |-> r, raises |-> f, found |-> g, getRaises |-> x] :
     r \in {<<>>, <<Row("A", None), Row("B", None), Row("C", None)>>,
            <<Row("B", None), Row("A", None)>>},
     f \in BOOLEAN, g \in {Codes, {"A"}}, x \in {{}, {"B"}}}

\* a new ScreeningService, the tree its callers use and the stock table
InitService ==
  /\ condition \in ServiceConditions
  /\ stock_codes = <<>>
  /\ context = CtxNone
  /\ hashOrder = <<"A", "B", "C">>
  /\ result = NoResult
  /\ pc = "service"
  /\ all_stocks_cache = None
  /\ catalog \in Catalogs
  /\ call = NoCall
  /\ queriesSinceClear = 0
  /\ threads = NoThreads

\* what a returning (or raising) entry point leaves behind: the cache, the
\* caller's mapping object, and the record of the call
ServiceReturn(o, ctx) ==
  /\ call' = o
  /\ all_stocks_cache' = o.cacheAfter
  /\ queriesSinceClear' = IF o.queried THEN queriesSinceClear + 1 ELSE queriesSinceClear
  /\ context' = CallerMapping(ctx)
  /\ stock_codes' = o.universe
  /\ result' = o.filter
  /\ UNCHANGED <<condition, hashOrder, pc, catalog, threads>>

ScreenStocks ==
  /\ pc = "service" /\ queriesSinceClear < MaxQueries
  /\ \E initial_codes \in InitialCodes, ctx \in CallerContexts :
       ServiceReturn(screen_stocks(condition, initial_codes, ctx, all_stocks_cache,
                                   catalog), ctx)

CountStocks ==
  /\ pc = "service" /\ queriesSinceClear < MaxQueries
  /\ \E initial_codes \in InitialCodes, ctx \in CallerContexts :
       ServiceReturn(count_stocks(condition, initial_codes, ctx, all_stocks_cache,
                                  catalog), ctx)

GetStockCodes ==
  /\ pc = "service" /\ queriesSinceClear < MaxQueries
  /\ \E initial_codes \in InitialCodes, ctx \in CallerContexts :
       ServiceReturn(get_stock_codes(condition, initial_codes, ctx, all_stocks_cache,
                                     catalog), ctx)

\* ScreeningService.clear_cache
ClearCache ==
  /\ pc = "service"
  /\ all_stocks_cache' = None
  /\ queriesSinceClear' = 0
  /\ call' = [NoCall EXCEPT !.op = "clear_cache", !.cacheBefore = all_stocks_cache]
  /\ UNCHANGED <<condition, stock_codes, context, hashOrder, result, pc, catalog,
                 threads>>

NextService == ScreenStocks \/ CountStocks \/ GetStockCodes \/ ClearCache

SpecService == InitService /\ [][NextService]_vars


\* ------------------------------------- calls in progress, step by step
\* A call is cut at the child invocations of its combinators and at the reads
\* and writes of the universe cache.  A leaf invocation is one step: a leaf
\* keeps everything in local variables and only reads its collaborators.

\* node of the tree c at the path who
RECURSIVE NodeAt(_, _)
NodeAt(c, who) == IF who = <<>> THEN c ELSE NodeAt(c.conditions[Head(who)], Tail(who))

\* the local variables of one combinator filter call: the loop index, the
\* input list, `result` of AndCombinator, `result_set` / `matched_set` of the
\* other two
Frame(who, input) == [who |-> who, i |-> 1, input |-> input, res |-> input, set |-> {}]
Top(c) == c.stack[Len(c.stack)]
Pop(c) == SubSeq(c.stack, 1, Len(c.stack) - 1)

\* NextChildInput that reads `result` from the frame of caller c1, as if the
\* combinator kept it in an attribute of the shared tree
NextChildInput_Shared(th, t) ==
  LET f == Top(th[t])
      g == IF th["c1"].stack /= <<>> THEN Top(th["c1"]) ELSE f
  IN IF NodeAt(condition, f.who).type = "AndCombinator"
       THEN (IF g.who = f.who THEN g.res ELSE f.res)
       ELSE f.input

\* the list the combinator on top of caller t's stack hands to its next child
NextChildInput(th, t) ==
  LET f == Top(th[t])
  IN IF NodeAt(condition, f.who).type = "AndCombinator" THEN f.res ELSE f.input

\* the loop of the frame f of combinator n has ended
LoopOver(n, f) ==
  \/ f.i > Len(n.conditions)
  \/ n.type = "AndCombinator" /\ f.i > 1 /\ f.res = <<>>

\* what the combinator n returns when the loop of its frame f has ended
FrameReturn(n, f) ==
  CASE n.type = "AndCombinator" -> f.res
    [] n.type = "OrCombinator" -> ListOfSet(f.set)
    [] n.type = "NotCombinator" -> ListOfSet(Range(f.input) \ f.set)

\* the frame f of combinator n after its current child returned the list r
Fold(n, f, r) ==
  IF n.type = "AndCombinator" THEN [f EXCEPT !.res = r, !.i = @ + 1]
  ELSE [f EXCEPT !.set = @ \cup Range(r), !.i = @ + 1]

\* caller c after the outcome r reaches the frame on top of its stack: an
\* exception unwinds every frame, a list is folded into the waiting loop or,
\* with no frame left, is the result of the call
Deliver(c, r) ==
  IF r.raised \/ c.stack = <<>>
    THEN [c EXCEPT !.stack = <<>>, !.pc = "done",
                   !.out = [ret |-> r.ret, raised |-> r.raised]]
  ELSE LET f == Top(c)
       IN [c EXCEPT !.stack = Append(Pop(c), Fold(NodeAt(condition, f.who), f, r.ret))]

\* the days a call's dateless point-in-time leaves resolved, after outcome r
DaysAfter(c, r) ==
  IF ~r.raised /\ \E j \in 1..Len(r.log) : r.log[j].op = "get_latest_trade_date"
    THEN c.days \cup {FetchOf(prepare_context(c.ctx)).latest}
  ELSE c.days

\* caller c invokes child.filter(arg, context): a combinator with children
\* and a non-empty input opens a frame, anything else returns at once
Invoke(c, child, arg, who) ==
  IF IsCombinator(child) /\ child.conditions /= <<>> /\ arg /= <<>>
    THEN [c EXCEPT !.stack = Append(@, Frame(who, arg)), !.pc = "run"]
  ELSE LET r == Filter(child, arg, prepare_context(c.ctx), who)
       IN Deliver([c EXCEPT !.pc = "run", !.days = DaysAfter(c, r)], r)

\* another caller is inside a call
OthersActive(t) == \E u \in Callers \ {t} : threads[u].pc \notin {"idle", "start", "done"}

\* caller t moves to the record c
Move(t, c) ==
  threads' = [threads EXCEPT ![t] = [c EXCEPT !.overlapped = @ \/ OthersActive(t)]]

\* _get_initial_codes up to the test of the cache
Resolve(t) ==
  LET c == threads[t]
  IN /\ pc = "shared" /\ c.pc = "start"
     /\ Move(t, IF ~IsNone(c.initial_codes)
                  THEN [c EXCEPT !.codes = Val(c.initial_codes), !.pc = "enter"]
                ELSE IF IsNone(all_stocks_cache) THEN [c EXCEPT !.pc = "load"]
                ELSE [c EXCEPT !.pc = "return_cache"])
     /\ UNCHANGED <<condition, stock_codes, context, hashOrder, result, pc,
                    all_stocks_cache, catalog, call, queriesSinceClear>>

\* get_all_stocks and the assignment to _all_stocks_cache
LoadUniverse(t) ==
  LET c == threads[t]
  IN /\ pc = "shared" /\ c.pc = "load"
     /\ all_stocks_cache' = Some(RowCodes(get_all_stocks(catalog)))
     /\ Move(t, [c EXCEPT !.pc = "return_cache"])
     /\ UNCHANGED <<condition, stock_codes, context, hashOrder, result, pc,
                    catalog, call, queriesSinceClear>>

\* `return self._all_stocks_cache`
ReturnCache(t) ==
  LET c == threads[t]
  IN /\ pc = "shared" /\ c.pc = "return_cache"
     /\ Move(t, [c EXCEPT !.codes = Val(all_stocks_cache), !.pc = "enter"])
     /\ UNCHANGED <<condition, stock_codes, context, hashOrder, result, pc,
                    all_stocks_cache, catalog, call, queriesSinceClear>>

\* condition.filter(codes, context) on the root
Enter(t) ==
  LET c == threads[t]
  IN /\ pc = "shared" /\ c.pc = "enter"
     /\ Move(t, Invoke(c, condition, c.codes, <<>>))
     /\ UNCHANGED <<condition, stock_codes, context, hashOrder, result, pc,
                    all_stocks_cache, catalog, call, queriesSinceClear>>

\* one iteration of the loop of the combinator on top of the stack
InvokeChild(t) ==
  LET c == threads[t]
  IN /\ pc = "shared" /\ c.pc = "run" /\ c.stack /= <<>>
     /\ LET f == Top(c)
            n == NodeAt(condition, f.who)
        IN /\ ~LoopOver(n, f)
           /\ Move(t, Invoke(c, n.conditions[f.i], NextChildInput(threads, t),
                             Append(f.who, f.i)))
     /\ UNCHANGED <<condition, stock_codes, context, hashOrder, result, pc,
                    all_stocks_cache, catalog, call, queriesSinceClear>>

\* the return statement of the combinator on top of the stack
ReturnFrom(t) ==
  LET c == threads[t]
  IN /\ pc = "shared" /\ c.pc = "run" /\ c.stack /= <<>>
     /\ LET f == Top(c)
            n == NodeAt(condition, f.who)
        IN /\ LoopOver(n, f)
           /\ Move(t, Deliver([c EXCEPT !.stack = Pop(c)],
                              [ret |-> FrameReturn(n, f), raised |-> FALSE, log |-> <<>>]))
     /\ UNCHANGED <<condition, stock_codes, context, hashOrder, result, pc,
                    all_stocks_cache, catalog, call, queriesSinceClear>>

\* the trees two callers share
SharedLeafA == CodeList({"A", "B"}, FALSE)
SharedLeafB == CodeList({"B"}, TRUE)
SharedTrees ==
  {Combinator("AndCombinator", <<SharedLeafA, SharedLeafB>>),
   Combinator("AndCombinator", <<Market(Some("SH")), SharedLeafA>>),
   Combinator("OrCombinator", <<CodeList({"A"}, FALSE), Market(Some("SH"))>>),
   Combinator("NotCombinator", <<Combinator("OrCombinator", <<SharedLeafB, SharedLeafA>>)>>),
   Combinator("AndCombinator",
              <<Combinator("NotCombinator", <<CodeList({"A"}, FALSE)>>),
                CodeList({"B", "C"}, FALSE)>>)}
SharedCatalogs ==
  {[catalog_default EXCEPT !.rows = <<Row("A", None), Row("B", None), Row("C", None)>>],
   [catalog_default EXCEPT !.raises = TRUE]}
SharedContexts == {CtxNone, Ctx(CallerDb, fetch_data_service_default)}

\* one ScreeningService and one tree, two callers about to call
InitShared ==
  /\ condition \in SharedTrees
  /\ stock_codes = <<>>
  /\ context = CtxNone
  /\ hashOrder = <<"A", "B", "C">>
  /\ result = NoResult
  /\ pc = "shared"
  /\ all_stocks_cache = None
  /\ catalog \in SharedCatalogs
  /\ call = NoCall
  /\ queriesSinceClear = 0
  /\ \E i1 \in InitialCodes \ {Some(<<>>)}, i2 \in {None, Some(<<"C", "A">>)},
        x1 \in SharedContexts :
       threads = [t \in Callers |->
                    [Idle EXCEPT !.pc = "start",
                                 !.initial_codes = IF t = "c1" THEN i1 ELSE i2,
                                 !.ctx = IF t = "c1" THEN x1 ELSE CtxNone]]

NextShared ==
  \E t \in Callers :
     \/ Resolve(t) \/ LoadUniverse(t) \/ ReturnCache(t)
     \/ Enter(t) \/ InvokeChild(t) \/ ReturnFrom(t)

SpecShared == InitShared /\ [][NextShared]_vars

\* ---------------------------- one call while the trading calendar moves
\* dateless point-in-time conditions (and one with an explicit date)
Dateless(t, lo) ==
  CASE t = "PriceCondition" ->
         [type |-> t, params |-> [min_price |-> lo, max_price |-> None, date |-> None]]
    [] t = "VolumeCondition" ->
         [type |-> t, params |-> [min_volume |-> lo, max_volume |-> None, date |-> None]]
    [] t = "TurnoverCondition" ->
         [type |-> t, params |-> [min_turnover |-> lo, max_turnover |-> None, date |-> None]]
    [] t = "ChangeRateCondition" ->
         [type |-> t, params |-> [days |-> 1, min_rate |-> lo, max_rate |-> None,
                                  date |-> None]]
TimedTrees ==
  {Combinator("AndCombinator", <<Dateless("PriceCondition", Some(1)),
                                 Dateless("VolumeCondition", Some(1))>>),
   Combinator("AndCombinator", <<Dateless("TurnoverCondition", Some(1)),
                                 Dateless("PriceCondition", Some(2))>>),
   Combinator("OrCombinator", <<Dateless("PriceCondition", Some(2)),
                                Dateless("VolumeCondition", Some(1))>>),
   Combinator("AndCombinator", <<Dateless("PriceCondition", Some(1)),
                                 Dateless("ChangeRateCondition", Some(0))>>),
   Combinator("AndCombinator",
              <<[Dateless("PriceCondition", Some(1)) EXCEPT !.params.date = Some("2024-01-08")],
                Dateless("VolumeCondition", Some(1))>>)}
TimedFetch ==
  [fetch_data_service_default EXCEPT
     !.close = [c \in Codes |-> IF c = "A" THEN <<1, 2>> ELSE <<2, 1>>]]

\* one caller about to call; the calendar's latest day is 2024-01-05
InitTimed ==
  /\ condition \in TimedTrees
  /\ stock_codes = <<>>
  /\ context = CtxNone
  /\ hashOrder = <<"A", "B", "C">>
  /\ result = NoResult
  /\ pc = "shared"
  /\ all_stocks_cache = None
  /\ catalog = [catalog_default EXCEPT !.rows = <<Row("A", None), Row("C", None)>>]
  /\ call = NoCall
  /\ queriesSinceClear = 0
  /\ \E i1 \in InitialCodes \ {Some(<<>>)} :
       threads = [NoThreads EXCEPT
                    !["c1"] = [Idle EXCEPT !.pc = "start", !.initial_codes = i1,
                                           !.ctx = Ctx(CallerDb, TimedFetch)]]

\* a new trading day is loaded into stock_daily: SELECT_LATEST_TRADE_DATE
\* answers with it from now on
CalendarAdvances ==
  /\ pc = "shared"
  /\ threads["c1"].ctx.fetch_service.latest = Some("2024-01-05")
  /\ threads' = [threads EXCEPT !["c1"].ctx.fetch_service.latest = Some("2024-01-08")]
  /\ UNCHANGED <<condition, stock_codes, context, hashOrder, result, pc,
                 all_stocks_cache, catalog, call, queriesSinceClear>>

NextTimed ==
  \/ Resolve("c1") \/ LoadUniverse("c1") \/ ReturnCache("c1")
  \/ Enter("c1") \/ InvokeChild("c1") \/ ReturnFrom("c1")
  \/ CalendarAdvances

SpecTimed == InitTimed /\ [][NextTimed]_vars

\* ------------------------------- dated tables behind the batched queries
\* stock_market_value / stock_financial_income: rows [code, date, val], at
\* most one per code and date; dates are numbered in calendar order
Dates == {1, 2}
Histories == {{}, {<<1, 3>>}, {<<1, 3>>, <<2, 1>>}, {<<2, 3>>}, {<<1, 1>>, <<2, 3>>}}
Tables ==
  {UNION {{[code |-> c, date |-> h[1], val |-> h[2]] : h \in hs[c]} : c \in Codes} :
     hs \in [Codes -> Histories]}

\* the query issued when no report / update date is given:
\*   SELECT DISTINCT code FROM t WHERE code = ANY(codes) AND val >= lo AND val <= hi
\*     AND date = (SELECT MAX(date) FROM t WHERE code = t.code)
\* inside the subquery both `code` and `t.code` name the column of the
\* subquery's own FROM item, which has no alias
LatestRecordQuery(table, codes_in, lo, hi) ==
  LET newest(r) == LET sub == {s \in table : s.code = s.code}
                   IN CHOOSE d \in {s.date : s \in sub} : \A s \in sub : s.date <= d
      hits == {r \in table : /\ r.code \in Range(codes_in)
                             /\ IsNone(lo) \/ r.val >= Val(lo)
                             /\ IsNone(hi) \/ r.val <= Val(hi)
                             /\ r.date = newest(r)}
      found == SelectSeq(<<"A", "B", "C">>, LAMBDA c : c \in {r.code : r \in hits})
  IN [i \in 1..Len(found) |-> Row(found[i], None)]

\* the lower and upper bound of a dated leaf
LowerOf(c) ==
  CASE c.type = "MarketValueCondition" -> c.params.min_value
    [] c.type = "RevenueCondition" -> c.params.min_revenue
    [] c.type = "ProfitCondition" -> c.params.min_profit
    [] OTHER -> c.params.min_eps
UpperOf(c) ==
  CASE c.type = "MarketValueCondition" -> c.params.max_value
    [] c.type = "RevenueCondition" -> c.params.max_revenue
    [] c.type = "ProfitCondition" -> c.params.max_profit
    [] OTHER -> c.params.max_eps

DatedLeaves ==
  {c \in CatalogLeaves :
     /\ c.type \in {"MarketValueCondition", "RevenueCondition", "ProfitCondition",
                    "EPSCondition"}
     /\ ~IsNone(LowerOf(c)) \/ ~IsNone(UpperOf(c))}

\* a dated leaf, an input, and a data-access handle over a dated table
InitDated ==
  /\ condition \in DatedLeaves
  /\ stock_codes \in Inputs
  /\ \E table \in Tables :
       context = Ctx([raises |-> {}, table |-> table,
                      rows |-> LatestRecordQuery(table, stock_codes, LowerOf(condition),
                                                 UpperOf(condition))],
                     fetch_data_service_default)
  /\ hashOrder = <<"A", "B", "C">>
  /\ result = NoResult
  /\ pc = "ready"
  /\ NoService

SpecDated == InitDated /\ [][Next]_vars

\* -------------------------------------- the three forms of "neither"
NotOfOr(a, b) ==
  Combinator("NotCombinator", <<Combinator("OrCombinator", <<a, b>>)>>)
AndOfNots(a, b) ==
  Combinator("AndCombinator", <<Combinator("NotCombinator", <<a>>),
                                Combinator("NotCombinator", <<b>>)>>)
NotOfBoth(a, b) == Combinator("NotCombinator", <<a, b>>)
DeMorganTrees ==
  UNION {{NotOfOr(a, b), AndOfNots(a, b), NotOfBoth(a, b)} :
           a \in PlainLeaves, b \in PlainLeaves}

\* one of the three forms over two list conditions, and an input
InitDeMorgan ==
  /\ condition \in DeMorganTrees
  /\ stock_codes \in Inputs
  /\ context = CtxNone
  /\ hashOrder \in {<<"A", "B", "C">>, <<"C", "A", "B">>}
  /\ result = NoResult
  /\ pc = "ready"
  /\ NoService

SpecDeMorgan == InitDeMorgan /\ [][Next]_vars

\* ------------------------------------------------------------- properties
Done == pc = "done"
IsAnd == condition.type = "AndCombinator"
IsOr == condition.type = "OrCombinator"
IsNot == condition.type = "NotCombinator"

\* the invocations of the root's own children, in call order
ChildCalls == SelectSeq(result.log, LAMBDA e : e.op = "filter" /\ Len(e.who) = 1)
\* what child k of the root returns for the list l
ChildOut(k, l) == Filter(condition.conditions[k], l, context, <<k>>).ret
\* the union of what the root's children return for the list l
ChildUnion(l) == UNION {Range(ChildOut(k, l)) : k \in 1..Len(condition.conditions)}

\* Cn(...C2(C1(l))) with every child applied, no loop exit
RECURSIVE LeftFold(_, _)
LeftFold(n, l) == IF n = 0 THEN l ELSE ChildOut(n, LeftFold(n - 1, l))

\* the root's children are all list conditions in include mode
AllInclude ==
  \A k \in 1..Len(condition.conditions) :
     /\ condition.conditions[k].type = "CodeListCondition"
     /\ ~condition.conditions[k].params.exclude
IncludeSets == {condition.conditions[k].params.codes : k \in 1..Len(condition.conditions)}

\* C1 (left fold): AndCombinator over n >= 1 children on a non-empty input
\* returns Cn(...C2(C1(I))); child 1 is called with I and every later child
\* that is called gets the list its predecessor returned.
C1_LeftFold ==
  (Done /\ IsAnd /\ condition.conditions /= <<>> /\ stock_codes /= <<>>) =>
    /\ ~result.raised
    /\ result.ret = LeftFold(Len(condition.conditions), stock_codes)
    /\ ChildCalls /= <<>>
    /\ \A k \in 1..Len(ChildCalls) :
         /\ ChildCalls[k].who = <<k>>
         /\ ChildCalls[k].arg = IF k = 1 THEN stock_codes
                                ELSE ChildOut(k - 1, ChildCalls[k - 1].arg)

\* C1: the left fold of C1_LeftFold, and for list conditions include(S1),
\* include(S2), ... the result set is the intersection of I with every Si.
C1_ChainIntersection ==
  /\ C1_LeftFold
  /\ (Done /\ IsAnd /\ condition.conditions /= <<>> /\ stock_codes /= <<>> /\ AllInclude) =>
       Range(result.ret) = {c \in Range(stock_codes) : \A S \in IncludeSets : c \in S}

\* C2: in AndCombinator.filter, a child that returns an empty list is the
\* last child invoked, and the combinator then returns an empty list.
C2_ShortCircuit ==
  (Done /\ IsAnd) =>
    \A k \in 1..Len(ChildCalls) :
       ChildOut(ChildCalls[k].who[1], ChildCalls[k].arg) = <<>> =>
         /\ k = Len(ChildCalls)
         /\ result.ret = <<>>
         /\ ~result.raised

C2_Witness ==
  /\ Done /\ IsAnd /\ Len(condition.conditions) = 2 /\ stock_codes /= <<>>
  /\ Len(ChildCalls) = 1
  /\ ChildOut(1, stock_codes) = <<>>
  /\ ChildOut(2, stock_codes) /= <<>>

\* C3: OrCombinator over n >= 1 children on a non-empty input invokes every
\* child exactly once, in order, each with the unmodified input, and the set
\* of its result is the union of the children's outputs.
C3_OrUnion ==
  (Done /\ IsOr /\ condition.conditions /= <<>> /\ stock_codes /= <<>>) =>
    /\ ~result.raised
    /\ Len(ChildCalls) = Len(condition.conditions)
    /\ \A k \in 1..Len(ChildCalls) :
         ChildCalls[k].who = <<k>> /\ ChildCalls[k].arg = stock_codes
    /\ Range(result.ret) = ChildUnion(stock_codes)

\* a stricter first branch, and a second branch that keeps a code the first drops
C3_Witness ==
  /\ Done /\ IsOr /\ Len(condition.conditions) = 2 /\ Len(ChildCalls) = 2
  /\ ChildOut(1, stock_codes) = <<>>
  /\ \E c \in Range(ChildOut(2, stock_codes)) : c \in Range(result.ret)

\* C4 as stated: for n >= 1 children and any input, NotCombinator evaluates
\* every child against the original input and returns I \ union.
C4_Original ==
  (Done /\ IsNot /\ condition.conditions /= <<>>) =>
    /\ Len(ChildCalls) = Len(condition.conditions)
    /\ \A k \in 1..Len(ChildCalls) :
         ChildCalls[k].who = <<k>> /\ ChildCalls[k].arg = stock_codes
    /\ Range(result.ret) = Range(stock_codes) \ ChildUnion(stock_codes)

\* C4 amended: for n >= 1 children the result set is I \ union for any input;
\* every child is evaluated, once and against the original input, when the
\* input is non-empty, and no child is evaluated when it is empty.
C4_NotDifference ==
  (Done /\ IsNot /\ condition.conditions /= <<>>) =>
    /\ ~result.raised
    /\ Range(result.ret) = Range(stock_codes) \ ChildUnion(stock_codes)
    /\ Len(ChildCalls) = IF stock_codes = <<>> THEN 0 ELSE Len(condition.conditions)
    /\ \A k \in 1..Len(ChildCalls) :
         ChildCalls[k].who = <<k>> /\ ChildCalls[k].arg = stock_codes

C4_Witness ==
  /\ Done /\ IsNot /\ Len(condition.conditions) = 2 /\ Len(ChildCalls) = 2
  /\ ChildUnion(stock_codes) \cap Range(stock_codes) /= {}
  /\ result.ret /= <<>>

\* C5: a combinator with zero children returns its input unchanged, for an
\* empty or non-empty input, and calls no child and no collaborator.
C5_ZeroChildren ==
  (Done /\ IsCombinator(condition) /\ condition.conditions = <<>>) =>
    /\ ~result.raised
    /\ result.ret = stock_codes
    /\ result.log = <<Ev("filter", <<>>, stock_codes)>>

C5_Witness ==
  /\ Done /\ IsOr /\ condition.conditions = <<>>
  /\ Len(stock_codes) = 2 /\ result.ret = stock_codes


\* every leaf invocation of the call returned a sublist of the list it got
LeavesReturnSubsets ==
  \A j \in 1..Len(result.log) :
     LET e == result.log[j]
         node == NodeAt(condition, e.who)
     IN (e.op = "filter" /\ ~IsCombinator(node)) =>
          Range(Filter(node, e.arg, context, e.who).ret) \subseteq Range(e.arg)

RECURSIVE Depth(_)
Depth(c) ==
  IF ~IsCombinator(c) THEN 0
  ELSE LET ds == {Depth(c.conditions[i]) : i \in 1..Len(c.conditions)}
       IN 1 + (IF ds = {} THEN 0 ELSE CHOOSE d \in ds : \A x \in ds : x <= d)

\* C6: when every leaf returns a subset of the list it is given, every tree of
\* And / Or / Not combinators returns only identifiers of its input.
C6_SubsetInvariant ==
  (Done /\ IsCombinator(condition) /\ LeavesReturnSubsets) =>
    /\ ~result.raised
    /\ Range(result.ret) \subseteq Range(stock_codes)

C6_Witness ==
  /\ Done /\ Depth(condition) >= 2 /\ LeavesReturnSubsets
  /\ IsNot /\ condition.conditions[1].type = "OrCombinator"
  /\ result.ret /= <<>> /\ Range(result.ret) /= Range(stock_codes)

\* the context whose data-access handle fails / serves the query sql
Failing(ctx, sql) == [ctx EXCEPT !.db_manager.raises = @ \cup {sql}]
Serving(ctx, sql) == [ctx EXCEPT !.db_manager.raises = @ \ {sql}]

\* C7: for any tree and input, the result when a collaborator call fails is a
\* subset of the result when that call succeeds, also under a NotCombinator.
C7_FailClosed ==
  Done =>
    \A sql \in SqlNames :
       Range(Filter(condition, stock_codes, Failing(context, sql), <<>>).ret)
         \subseteq Range(Filter(condition, stock_codes, Serving(context, sql), <<>>).ret)

\* the batched conditions that return the codes of the rows they are handed
RowTrustingTypes ==
  {"MarketValueCondition", "ListDateCondition", "CompanyTypeCondition",
   "PriceCondition", "VolumeCondition", "TurnoverCondition",
   "RevenueCondition", "ProfitCondition", "EPSCondition"}

\* C8: whatever rows the data-access handle returns, every identifier a
\* batched leaf condition returns is an element of its input.
C8_NoFabrication ==
  (Done /\ condition.type \in RowTrustingTypes) =>
    Range(result.ret) \subseteq Range(stock_codes)

\* the call reached the data-access handle and the handle raised
QueryRaised ==
  /\ \E j \in 1..Len(result.log) : result.log[j].op = "execute_query"
  /\ condition.type \in DbOf(context).raises

\* C9: when the data-access call of a batched leaf condition raises, filter
\* returns the empty list for a non-empty input and raises nothing.
C9_QueryFailureGivesEmpty ==
  (Done /\ condition.type \in SqlNames /\ stock_codes /= <<>> /\ QueryRaised) =>
    /\ result.ret = <<>>
    /\ ~result.raised

C9_Witness ==
  /\ Done /\ condition.type = "PriceCondition" /\ IsNone(condition.params.date)
  /\ Len(stock_codes) = 2 /\ QueryRaised
  /\ result.ret = <<>>

\* C10: no exception escapes a filter call of any leaf condition, whatever
\* its parameters and whatever its collaborators do.
C10_NoExceptionEscapes == Done => ~result.raised

\* the conditions that look every identifier up on its own
PerIdentifierTypes ==
  {"ChangeRateCondition", "MACDCondition", "BOLLCondition",
   "MovingAverageCondition", "GrowthRateCondition"}

\* the call reached its loop over the identifiers
LoopReached ==
  \E j \in 1..Len(result.log) : result.log[j].op \in {"fetch_stock_data", "execute_query"}

\* the lookup the root condition makes for code raises
LookupRaises(code) ==
  IF condition.type = "GrowthRateCondition" THEN code \in DbOf(context).periodRaises
  ELSE code \in FetchOf(context).dataRaises

\* the data of code is too short for the root condition
TooShort(code) ==
  LET n == Len(FetchOf(context).close[code])
  IN CASE condition.type = "GrowthRateCondition" -> Len(DbOf(context).periods[code]) < 2
       [] condition.type = "ChangeRateCondition" -> n < condition.params.days
       [] condition.type = "MACDCondition" -> n < 30
       [] condition.type = "BOLLCondition" -> n < 20
       [] OTHER -> n < condition.params.period

\* the baseline value of code (previous period, or the close `days` rows back)
\* is null or zero
NoBaseline(code) ==
  /\ ~TooShort(code)
  /\ CASE condition.type = "GrowthRateCondition" ->
            LET rows == DbOf(context).periods[code]
            IN IsNone(rows[1]) \/ IsNone(rows[2]) \/ Val(rows[2]) = 0
       [] condition.type = "ChangeRateCondition" ->
            LET close == FetchOf(context).close[code]
            IN close[Len(close) - condition.params.days + 1] = 0
       [] OTHER -> FALSE

Without(l, f) == SelectSeq(l, LAMBDA c : c /= f)

\* the root excludes f and treats the other identifiers as if f were not there
ExcludesOnly(f) ==
  /\ f \notin Range(result.ret)
  /\ result.ret = Filter(condition, Without(stock_codes, f), context, <<>>).ret

\* C11 as stated: in a per-identifier condition an identifier whose lookup
\* raises, whose history is too short or whose baseline is null or zero is
\* excluded, and the others are included as if it had not been in the input.
C11_SkipsOnlyFailing ==
  (Done /\ condition.type \in PerIdentifierTypes /\ ~result.raised /\ LoopReached) =>
    \A f \in Range(stock_codes) :
       (LookupRaises(f) \/ TooShort(f) \/ NoBaseline(f)) => ExcludesOnly(f)

\* the part of C11 that holds: a raising lookup or a short history excludes
\* only that identifier, and so does a null or zero baseline in GrowthRate
C11_LookupFailureIsolated ==
  (Done /\ condition.type \in PerIdentifierTypes /\ ~result.raised /\ LoopReached) =>
    \A f \in Range(stock_codes) :
       (\/ LookupRaises(f) \/ TooShort(f)
        \/ (NoBaseline(f) /\ condition.type = "GrowthRateCondition")) => ExcludesOnly(f)

C11_LookupFailureIsolated_Witness ==
  /\ Done /\ condition.type = "GrowthRateCondition" /\ LoopReached
  /\ Len(stock_codes) = 2 /\ LookupRaises(stock_codes[1])
  /\ result.ret = <<stock_codes[2]>>

\* the conditions that read the market-data handle
FetchTypes ==
  {"PriceCondition", "VolumeCondition", "TurnoverCondition", "ChangeRateCondition",
   "MACDCondition", "BOLLCondition", "MovingAverageCondition"}

\* the context with the process-default market-data handle in its slot
WithDefaultFetch(ctx) ==
  [ctx EXCEPT !.none = FALSE, !.keys = @ \cup {"fetch_service"},
              !.fetch_service = fetch_data_service_default]

\* C12: without a context, or with a context that has no fetch_service slot,
\* a condition that needs the market-data handle raises nothing and returns
\* what it returns when the process-default handle is passed in the context.
C12_FallsBackToDefault ==
  (Done /\ condition.type \in FetchTypes /\ ~HasKey(context, "fetch_service")) =>
    /\ ~result.raised
    /\ result.ret = Filter(condition, stock_codes, WithDefaultFetch(context), <<>>).ret

\* every filter value of the root leaf condition is absent (None)
AllAbsent ==
  LET q == condition.params
  IN CASE condition.type = "MarketCondition" -> IsNone(q.market)
       [] condition.type = "MarketValueCondition" -> IsNone(q.min_value) /\ IsNone(q.max_value)
       [] condition.type = "IndustryCondition" ->
            IsNone(q.industry_name) /\ IsNone(q.industry_code)
       [] condition.type = "ListDateCondition" -> IsNone(q.min_date) /\ IsNone(q.max_date)
       [] condition.type = "CompanyTypeCondition" -> IsNone(q.company_type)
       [] condition.type = "PriceCondition" -> IsNone(q.min_price) /\ IsNone(q.max_price)
       [] condition.type = "VolumeCondition" -> IsNone(q.min_volume) /\ IsNone(q.max_volume)
       [] condition.type = "TurnoverCondition" ->
            IsNone(q.min_turnover) /\ IsNone(q.max_turnover)
       [] condition.type = "ChangeRateCondition" -> IsNone(q.min_rate) /\ IsNone(q.max_rate)
       [] condition.type = "RevenueCondition" -> IsNone(q.min_revenue) /\ IsNone(q.max_revenue)
       [] condition.type = "ProfitCondition" -> IsNone(q.min_profit) /\ IsNone(q.max_profit)
       [] condition.type = "EPSCondition" -> IsNone(q.min_eps) /\ IsNone(q.max_eps)
       [] condition.type = "GrowthRateCondition" ->
            IsNone(q.min_growth) /\ IsNone(q.max_growth)
       [] OTHER -> FALSE

\* C13: a leaf condition whose filter values are all absent returns its input
\* unchanged, raises nothing and calls no collaborator.
C13_AbsentMeansPassThrough ==
  (Done /\ AllAbsent) =>
    /\ ~result.raised
    /\ result.ret = stock_codes
    /\ result.log = <<Ev("filter", <<>>, stock_codes)>>

C13_Witness ==
  /\ Done /\ AllAbsent /\ condition.type = "PriceCondition"
  /\ IsNone(condition.params.date)
  /\ HasKey(context, "fetch_service") /\ context.fetch_service.latestRaises
  /\ Len(stock_codes) = 2 /\ result.ret = stock_codes

IsCodeList == condition.type = "CodeListCondition"

\* C14: for a non-empty code set S, the include list condition returns the
\* identifiers of the input that are in S and the exclude list condition those
\* that are not in S, in input order, with no collaborator call.
C14_IncludeExclude ==
  (Done /\ IsCodeList /\ condition.params.codes /= {}) =>
    /\ ~result.raised
    /\ result.log = <<Ev("filter", <<>>, stock_codes)>>
    /\ result.ret =
         IF condition.params.exclude
           THEN SelectSeq(stock_codes, LAMBDA c : c \notin condition.params.codes)
           ELSE SelectSeq(stock_codes, LAMBDA c : c \in condition.params.codes)
    /\ Range(result.ret) =
         IF condition.params.exclude
           THEN Range(stock_codes) \ condition.params.codes
           ELSE Range(stock_codes) \cap condition.params.codes

C14_Witness ==
  /\ Done /\ IsCodeList /\ condition.params.exclude
  /\ condition.params.codes = {"A", "C"}
  /\ stock_codes = <<"B", "A">> /\ result.ret = <<"B">>

\* C15: for the empty code set, the include list condition returns the empty
\* list and the exclude list condition returns its input unchanged.
C15_EmptyCodeSet ==
  (Done /\ IsCodeList /\ condition.params.codes = {}) =>
    result.ret = IF condition.params.exclude THEN stock_codes ELSE <<>>

NoDuplicates(l) == \A i, j \in 1..Len(l) : l[i] = l[j] => i = j

\* C16: the list a filter call returns holds each identifier at most once,
\* whether or not the input repeats identifiers and whatever rows come back.
C16_NoDuplicates == Done => NoDuplicates(result.ret)

\* ---------------------------------------------- ScreeningService properties
CallOps == {"screen_stocks", "count_stocks", "get_stock_codes"}
IsCall == call.op \in CallOps
FullUniverse == IsNone(call.initial_codes)

\* C17: the catalog is queried exactly on a full-universe call made while the
\* cache is unset, so at most once between two clear_cache calls; clear_cache
\* leaves the cache unset; a call with an explicit list uses that list, does
\* not query the catalog and leaves the cache as it was.
C17_CatalogQueriedOnlyWhenUnset ==
  /\ IsCall => (call.queried <=> (FullUniverse /\ IsNone(call.cacheBefore)))
  /\ queriesSinceClear <= 1
  /\ call.op = "clear_cache" => IsNone(all_stocks_cache)
  /\ (IsCall /\ FullUniverse) =>
       /\ ~IsNone(all_stocks_cache)
       /\ call.universe = Val(all_stocks_cache)
       /\ ~IsNone(call.cacheBefore) => all_stocks_cache = call.cacheBefore
  /\ (IsCall /\ ~FullUniverse) =>
       /\ call.universe = Val(call.initial_codes)
       /\ all_stocks_cache = call.cacheBefore

C17_Witness ==
  /\ IsCall /\ FullUniverse /\ ~IsNone(call.cacheBefore) /\ ~call.queried
  /\ queriesSinceClear = 1 /\ Len(call.universe) = 3

\* the number of invocations of the root condition's filter in a log
RootCalls(log) == Len(SelectSeq(log, LAMBDA e : e.op = "filter" /\ e.who = <<>>))

\* C18: every entry point invokes the root filter exactly once; get_stock_codes
\* returns the root filter's output; count_stocks returns the length of what
\* get_stock_codes returns for the same arguments and the same service state.
C18_SharedFilterInvocation ==
  IsCall =>
    /\ RootCalls(call.filter.log) = 1
    /\ (call.op = "get_stock_codes" /\ ~call.filter.raised) =>
         call.codes = Filter(condition, call.universe, call.passed, <<>>).ret
    /\ call.op = "count_stocks" =>
         LET g == get_stock_codes(condition, call.initial_codes, call.given,
                                  call.cacheBefore, catalog)
         IN /\ g.filter.raised = call.filter.raised
            /\ ~call.filter.raised => call.count = Len(g.codes)

C18_Witness ==
  /\ call.op = "count_stocks" /\ FullUniverse /\ call.queried
  /\ ~call.filter.raised /\ call.count = 2

\* C19: screen_stocks returns one display record for each identifier the
\* root filter returned, in the same order, also when get_stock finds no row
\* or fails for an identifier.
C19_HydratesEverySurvivor ==
  (call.op = "screen_stocks" /\ ~call.filter.raised) =>
    /\ Len(call.records) = Len(call.filter.ret)
    /\ \A i \in 1..Len(call.records) : call.records[i].code = call.filter.ret[i]

\* C20: the context handed to the root condition has both collaborator
\* slots; a slot the caller supplied keeps the caller's collaborator, an unset
\* slot holds the process default, and the caller's other keys are kept.
C20_ContextDefaulting ==
  IsCall =>
    LET g == call.given
        q == call.passed
        keys == IF g.none THEN {} ELSE g.keys
        slots == {"db_manager", "fetch_service"}
    IN /\ ~q.none /\ slots \subseteq q.keys
       /\ q.db_manager = IF "db_manager" \in keys THEN g.db_manager ELSE db_manager_default
       /\ q.fetch_service =
            IF "fetch_service" \in keys THEN g.fetch_service ELSE fetch_data_service_default
       /\ q.keys \ slots = keys \ slots

C20_Witness ==
  /\ IsCall /\ ~call.given.none /\ call.given.keys = {"fetch_service", "note"}
  /\ call.passed.fetch_service = CallerFetch
  /\ call.passed.db_manager = db_manager_default
  /\ call.passed.keys = {"db_manager", "fetch_service", "note"}

\* the number of calls of the collaborator operation op in a log
CountOp(log, op) == Len(SelectSeq(log, LAMBDA e : e.op = op))

\* C21: a batched leaf condition makes at most one data-access query and at
\* most one latest-trading-day lookup per filter call, and no per-identifier
\* lookup, whatever the length of the input.
C21_ConstantCollaboratorCalls ==
  (Done /\ condition.type \in SqlNames) =>
    /\ CountOp(result.log, "execute_query") <= 1
    /\ CountOp(result.log, "get_latest_trade_date") <= 1
    /\ CountOp(result.log, "fetch_stock_data") = 0

C21_Witness ==
  /\ Done /\ condition.type = "TurnoverCondition" /\ Len(stock_codes) = 2
  /\ stock_codes[1] /= stock_codes[2]
  /\ CountOp(result.log, "execute_query") = 1
  /\ CountOp(result.log, "get_latest_trade_date") = 1

\* the outcome of a filter call that returns [] having called nothing: the
\* log holds the invocation itself and no more
EmptyOutcome == [ret |-> <<>>, raised |-> FALSE, log |-> <<Ev("filter", <<>>, <<>>)>>]

\* C22: filter([]) returns [] with no collaborator call and no child
\* invocation, for every leaf condition whatever its parameters and for every
\* combinator over zero, one or two such children.
C22_EmptyInputShortCircuit ==
  (Done /\ stock_codes = <<>>) =>
    /\ result = EmptyOutcome
    /\ \A t \in CombinatorTypes :
         \A cs \in {<<>>, <<condition>>, <<condition, condition>>} :
            Filter(Combinator(t, cs), <<>>, context, <<>>) = EmptyOutcome

C22_Witness ==
  /\ Done /\ stock_codes = <<>> /\ result = EmptyOutcome
  /\ condition.type = "EPSCondition" /\ ~IsNone(condition.params.min_eps)
  /\ ~context.none /\ DbOf(context).rows /= <<>>

\* C23: a screening call writes nothing but the universe cache: across every
\* call the tree (parameter bags and child lists), the set order and the stock
\* table are as before, an explicit input list is the list that was filtered,
\* and the mapping the caller passed is as the caller built it.
C23_OnlyCacheWritten ==
  [][(call'.op \in CallOps) =>
       /\ condition' = condition
       /\ hashOrder' = hashOrder
       /\ catalog' = catalog
       /\ (~IsNone(call'.initial_codes) => call'.universe = Val(call'.initial_codes))
       /\ context' = call'.given]_vars

\* C25: the mapping object the caller passes to screen_stocks, count_stocks
\* or get_stock_codes is, after the call, equal to what the caller passed.
C25_CallerMappingUnchanged == IsCall => context = call.given

\* C24: two calls on one shared tree, interleaved at child invocations and at
\* the reads and writes of the universe cache, each return what the same call
\* returns when it runs alone on a new service.
C24_SharedTreeIsolation ==
  \A t \in Callers :
     threads[t].pc = "done" =>
       LET c == threads[t]
           alone == get_stock_codes(condition, c.initial_codes, c.ctx, None, catalog)
       IN /\ c.out.raised = alone.filter.raised
          /\ ~c.out.raised => c.out.ret = alone.filter.ret

C24_Witness ==
  /\ \A t \in Callers : threads[t].pc = "done" /\ threads[t].overlapped
  /\ threads["c1"].out.ret /= threads["c2"].out.ret
  /\ threads["c1"].out.ret /= <<>> /\ threads["c2"].out.ret /= <<>>
  /\ condition.type = "AndCombinator"

\* C26: in one screening call all point-in-time conditions without an
\* explicit date filter against one and the same trading day, also when the
\* calendar's latest day changes while the call is in progress.
C26_LatestDayResolvedOnce ==
  threads["c1"].pc = "done" => Cardinality(threads["c1"].days) <= 1

\* the rows below which an indicator condition skips an identifier
MinRows(c) ==
  CASE c.type = "MACDCondition" -> 30
    [] c.type = "BOLLCondition" -> 20
    [] OTHER -> c.params.period

\* C27: an indicator condition skips an identifier only for a failed lookup
\* or a series shorter than period / 30 / 20 rows; any other identifier is
\* tested on its latest row: MovingAverageCondition(signal='above') keeps it
\* exactly when the latest close exceeds the mean of the last period closes,
\* MACDCondition and BOLLCondition exactly when the signal is on.
C27_SkipsOnlyShortHistory ==
  (Done /\ ~result.raised
        /\ condition.type \in {"MACDCondition", "BOLLCondition", "MovingAverageCondition"}
        /\ condition.params.signal \in {"above", "golden_cross", "positive", "upper",
                                        "top_divergence"}) =>
    \A code \in Range(stock_codes) :
       LET fetch == FetchOf(context)
           df == fetch_stock_data(fetch, code)
           n == Len(df.close)
           p == condition.params.period
           on == IF condition.type = "MovingAverageCondition"
                   THEN df.close[n] * p > SumLast(df.close, n, p)
                 ELSE code \in fetch.signalOn
       IN (~df.raised /\ n >= MinRows(condition) /\ n >= 1) =>
            (code \in Range(result.ret) <=> on)

\* C28: with no date given, a market-value / revenue / profit / EPS condition
\* keeps an input identifier exactly when the identifier's own newest record
\* (maximum date among the rows of that code) lies within the bounds.
C28_OwnLatestRecord ==
  (Done /\ condition \in DatedLeaves) =>
    \A code \in Range(stock_codes) :
       LET own == {r \in context.db_manager.table : r.code = code}
           latest == {r \in own : \A s \in own : s.date <= r.date}
       IN code \in Range(result.ret) <=>
            \E r \in latest : /\ IsNone(LowerOf(condition)) \/ r.val >= Val(LowerOf(condition))
                              /\ IsNone(UpperOf(condition)) \/ r.val <= Val(UpperOf(condition))

\* C29: a full-universe call that finds the stock table failing or empty
\* leaves the empty list cached as the loaded universe, and a full-universe
\* call that finds the empty list cached filters it without another query.
C29_EmptyUniverseCached ==
  (IsCall /\ FullUniverse /\ get_all_stocks(catalog) = <<>>) =>
    /\ all_stocks_cache = Some(<<>>)
    /\ call.universe = <<>>
    /\ call.cacheBefore = Some(<<>>) => ~call.queried

C29_Witness ==
  /\ IsCall /\ FullUniverse /\ catalog.raises /\ catalog.rows /= <<>>
  /\ call.cacheBefore = Some(<<>>) /\ ~call.queried
  /\ all_stocks_cache = Some(<<>>) /\ call.universe = <<>>

\* the two list conditions under one of the three forms
FormLeaves(c) ==
  IF c.type = "AndCombinator"
    THEN <<c.conditions[1].conditions[1], c.conditions[2].conditions[1]>>
  ELSE IF IsCombinator(c.conditions[1]) THEN c.conditions[1].conditions
  ELSE c.conditions
SetOf(c) == Range(Filter(c, stock_codes, context, <<>>).ret)

\* C30: for list conditions A and B and a duplicate-free input,
\* Not([Or([A, B])]), And([Not([A]), Not([B])]) and Not([A, B]) return the
\* same set of identifiers.
C30_DeMorgan ==
  (Done /\ NoDuplicates(stock_codes)) =>
    LET a == FormLeaves(condition)[1]
        b == FormLeaves(condition)[2]
    IN /\ ~result.raised
       /\ Range(result.ret) = SetOf(NotOfOr(a, b))
       /\ Range(result.ret) = SetOf(AndOfNots(a, b))
       /\ Range(result.ret) = SetOf(NotOfBoth(a, b))

C30_Witness ==
  /\ Done /\ condition = AndOfNots(CodeList({"A"}, FALSE), CodeList({"B", "C"}, TRUE))
  /\ stock_codes = <<"C", "A">> /\ result.ret = <<"C">>

====
